---- MODULE Spec2Model ----
(***************************************************************************)
(* js-traffic-history: rate histogram builder, statistics, time filter and *)
(* downsampler.                                                            *)
(*                                                                         *)
(* Time is counted in whole ticks since Go's zero time.Time; a             *)
(* time.Duration is a number of ticks and Duration.Seconds() is that       *)
(* number.  A float64 is modelled by the exact rational it approximates,   *)
(* kept as a reduced fraction [n, d] with d > 0.  math.Sqrt is not         *)
(* representable, so every StdDev* field carries the radicand handed to    *)
(* math.Sqrt (the population variance).                                    *)
(***************************************************************************)
EXTENDS Integers, Sequences, FiniteSets, TLC

VARIABLES
    messages,     \* []MessageData handed to the builder
    granularity,  \* cfg.RateGranularity
    hist,         \* *RateHistogram returned by BuildRateHistogram (part_004 + seq interpolation)
    hist0,        \* *RateHistogram returned by the histogram.go revision of BuildRateHistogram
    summary,      \* ReportSummary returned by BuildReportSummary
    panicked,     \* TRUE when the last call ended in a Go runtime panic
    pc,           \* position of the run / name of the last completed call
    combined,     \* GUIServer.combined
    view,         \* histogram derived for the current request
    winStart,     \* *time.Time start of the last filter window (NoTime = nil)
    winEnd,       \* *time.Time end of the last filter window (NoTime = nil)
    parent,       \* the histogram the last extract / filter / downsample call was given
    dsMax,        \* maxBuckets of the last downsampleHistogram call
    dsAvg,        \* useAverage of the last downsampleHistogram call
    sortedValues, \* the sorted []float64 handed to percentileFloat64
    pctCalls,     \* the percentileFloat64 calls made on it: p = pn / pd and the result
    statArgs,     \* the arguments of calculateRateStats as the caller holds them
    statRes,      \* the RateStatistics returned by the calls made with statArgs
    requestVersion,  \* app.js: counter to ignore stale responses
    controller,      \* app.js currentAbortController: tag of the request it belongs to, 0 = null
    inflight,        \* histogram requests sent and not yet settled
    histogramData,   \* app.js histogramData: tag of the request whose response it holds, 0 = null
    displayed,       \* tag of the request whose response the charts and statistics show
    fullTimeRange,   \* app.js fullTimeRange: the time range of the loaded data, NoZoom = nulls
    currentZoom,     \* app.js currentZoom: the zoom window, NoZoom = full range
    zoomHistory,     \* app.js zoomHistory: stack of previous zoom windows
    isUpdatingData,  \* app.js isUpdatingData: flag that makes onZoomChange return at once
    zoomRefetchTimeout, \* TRUE while the timer held in zoomRefetchTimeout is pending
    timers,          \* pending setTimeout callbacks that test the version: [tag, kind]
    jsStream,        \* sequence numbers of the messages the server holds now
    streamInfo,      \* StreamInfo / CachedInfo recorded before the fetch
    fetchArgs,       \* batchSize, limit, startTime, endTime of the FetchStreamMessages call
    fetch,           \* locals of the FetchStreamMessages call and what it returned
    getBatchCalls,   \* the jetstreamext.GetBatch requests the call has made
    histograms,      \* GUIServer.histograms: nil, or the histogram built for each stream
    request,         \* query parameters of the last /api/histogram request
    response         \* status and JSON body written for it

coreVars == <<messages, granularity, hist, hist0, summary, panicked,
              combined, view, winStart, winEnd, parent, dsMax, dsAvg>>

pureVars == <<sortedValues, pctCalls, statArgs, statRes>>

guiVars == <<requestVersion, controller, inflight, histogramData, displayed,
             fullTimeRange, currentZoom, zoomHistory, isUpdatingData,
             zoomRefetchTimeout, timers>>

fetchVars == <<jsStream, streamInfo, fetchArgs, fetch, getBatchCalls>>

serveVars == <<histograms, request, response>>

vars == <<coreVars, pc, pureVars, guiVars, fetchVars, serveVars>>

(***************************************************************************)
(* Bounds of the model.                                                    *)
(***************************************************************************)
MaxMsgs == 3
MaxTime == 2
MaxSize == 2
MaxGap == 1
MaxGran == 2
MaxViewMsgs == 2
MaxViewTime == 2
MaxTarget == 2
MaxBuckets == 6
MaxLen == 4
MaxValue == 4
MaxDen == 4
MaxStatMsgs == 3
MaxVersion == 3
MaxZoomTime == 2
MaxHistory == 2
MaxSeq == 4
MaxBatch == 2
MaxLimit == 3
MaxServeMsgs == 2
MaxServeTime == 3
MaxSumMsgs == 3

StreamNames == {"A", "B"}

\* nil *time.Time
NoTime == -1

(***************************************************************************)
(* Exact rationals standing for float64 values.                            *)
(***************************************************************************)
RECURSIVE GCD(_, _)
GCD(a, b) == IF b = 0 THEN a ELSE GCD(b, a % b)

Abs(x) == IF x < 0 THEN -x ELSE x

Rat(n, d) ==
    LET k == GCD(Abs(n), d)
    IN  [n |-> n \div k, d |-> d \div k]

RZero == [n |-> 0, d |-> 1]

RInt(i) == [n |-> i, d |-> 1]

RAdd(a, b) == Rat(a.n * b.d + b.n * a.d, a.d * b.d)

RSub(a, b) == Rat(a.n * b.d - b.n * a.d, a.d * b.d)

RMul(a, b) == Rat(a.n * b.n, a.d * b.d)

RDivInt(a, k) == Rat(a.n, a.d * k)

RLess(a, b) == a.n * b.d < b.n * a.d

RLeq(a, b) == a.n * b.d <= b.n * a.d

RECURSIVE RSum(_)
RSum(s) == IF s = <<>> THEN RZero ELSE RAdd(Head(s), RSum(Tail(s)))

RECURSIVE ISum(_)
ISum(s) == IF s = <<>> THEN 0 ELSE Head(s) + ISum(Tail(s))

\* Go's integer division truncates toward zero.
GoDiv(a, b) == IF a >= 0 THEN a \div b ELSE -((-a) \div b)

\* time.Time.Truncate(d) for d > 0: round down to a multiple of d since the zero time.
Truncate(t, g) == t - (t % g)

\* sort.Float64s: ascending insertion of each element.
RECURSIVE InsertSorted(_, _)
InsertSorted(x, s) ==
    IF s = <<>> THEN <<x>>
    ELSE IF RLeq(x, Head(s)) THEN <<x>> \o s
    ELSE <<Head(s)>> \o InsertSorted(x, Tail(s))

RECURSIVE SortFloat64s(_)
SortFloat64s(s) == IF s = <<>> THEN <<>> ELSE InsertSorted(Head(s), SortFloat64s(Tail(s)))

(***************************************************************************)
(* percentileFloat64(sorted, p) with p = pn / pd.                          *)
(***************************************************************************)
\* percentileFloat64 with the two interpolation weights exchanged.
percentileFloat64_SwappedWeight(sorted, pn, pd) ==
    IF Len(sorted) = 0 THEN RZero
    ELSE IF Len(sorted) = 1 THEN sorted[1]
    ELSE
        LET idxNum == pn * (Len(sorted) - 1)
            lower == idxNum \div pd
            upper == lower + 1
            weight == Rat(idxNum % pd, pd)
        IN  IF upper >= Len(sorted) THEN sorted[Len(sorted)]
            ELSE RAdd(RMul(sorted[lower + 1], weight),
                      RMul(sorted[upper + 1], RSub(RInt(1), weight)))

percentileFloat64(sorted, pn, pd) ==
    IF Len(sorted) = 0 THEN RZero
    ELSE IF Len(sorted) = 1 THEN sorted[1]
    ELSE
        LET idxNum == pn * (Len(sorted) - 1)
            lower == idxNum \div pd
            upper == lower + 1
            weight == Rat(idxNum % pd, pd)
        IN  IF upper >= Len(sorted) THEN sorted[Len(sorted)]
            ELSE RAdd(RMul(sorted[lower + 1], RSub(RInt(1), weight)),
                      RMul(sorted[upper + 1], weight))

(***************************************************************************)
(* RateStatistics.                                                         *)
(***************************************************************************)
RECURSIVE RMinOf(_)
RMinOf(s) ==
    IF Len(s) = 1 THEN s[1]
    ELSE LET m == RMinOf(Tail(s)) IN IF RLess(Head(s), m) THEN Head(s) ELSE m

RECURSIVE RMaxOf(_)
RMaxOf(s) ==
    IF Len(s) = 1 THEN s[1]
    ELSE LET m == RMaxOf(Tail(s)) IN IF RLess(m, Head(s)) THEN Head(s) ELSE m

\* sumSquaredDiff / len(values): the radicand of the population standard deviation.
Variance(values, avg) ==
    LET sq == [i \in 1..Len(values) |->
                 RMul(RSub(values[i], avg), RSub(values[i], avg))]
    IN  RDivInt(RSum(sq), Len(values))

\* uint64 subtraction; a negative result -k stands for the wrapped value 2^64 - k.
U64Sub(a, b) == a - b

\* The zero value RateStatistics{}.
ZeroStats ==
    [TotalMessages |-> 0, TotalBytes |-> 0, StartTime |-> 0, EndTime |-> 0,
     TotalDuration |-> 0,
     AvgRate |-> RZero, P50Rate |-> RZero, P90Rate |-> RZero, P99Rate |-> RZero,
     P999Rate |-> RZero, MinRate |-> RZero, MaxRate |-> RZero, StdDevRate |-> RZero,
     AvgSeqRate |-> RZero, P50SeqRate |-> RZero, P90SeqRate |-> RZero,
     P99SeqRate |-> RZero, P999SeqRate |-> RZero, MinSeqRate |-> RZero,
     MaxSeqRate |-> RZero, StdDevSeqRate |-> RZero,
     AvgThroughput |-> RZero, P50Throughput |-> RZero, P90Throughput |-> RZero,
     P99Throughput |-> RZero, P999Throughput |-> RZero, MinThroughput |-> RZero,
     MaxThroughput |-> RZero, StdDevTput |-> RZero,
     AvgMsgSize |-> RZero, P50MsgSize |-> RZero, P90MsgSize |-> RZero,
     P99MsgSize |-> RZero, P999MsgSize |-> RZero, MinMsgSize |-> 0,
     MaxMsgSize |-> 0, StdDevMsgSize |-> RZero,
     FirstSeq |-> 0, LastSeq |-> 0, SeqRate |-> RZero,
     ActiveBuckets |-> 0, TotalBuckets |-> 0]

\* Rate and throughput aggregates over the buckets (the same text in both revisions).
RateFields(buckets) ==
    LET n == Len(buckets)
        rates == [i \in 1..n |-> buckets[i].Rate]
        throughputs == [i \in 1..n |-> buckets[i].Throughput]
        avgRate == RDivInt(RSum(rates), n)
        avgTput == RDivInt(RSum(throughputs), n)
        sortedRates == SortFloat64s(rates)
        sortedTputs == SortFloat64s(throughputs)
    IN  [MinRate |-> RMinOf(rates), MaxRate |-> RMaxOf(rates),
         MinThroughput |-> RMinOf(throughputs), MaxThroughput |-> RMaxOf(throughputs),
         ActiveBuckets |-> Cardinality({i \in 1..n : buckets[i].Count > 0}),
         AvgRate |-> avgRate, AvgThroughput |-> avgTput,
         P50Rate |-> percentileFloat64(sortedRates, 50, 100),
         P90Rate |-> percentileFloat64(sortedRates, 90, 100),
         P99Rate |-> percentileFloat64(sortedRates, 99, 100),
         P999Rate |-> percentileFloat64(sortedRates, 999, 1000),
         P50Throughput |-> percentileFloat64(sortedTputs, 50, 100),
         P90Throughput |-> percentileFloat64(sortedTputs, 90, 100),
         P99Throughput |-> percentileFloat64(sortedTputs, 99, 100),
         P999Throughput |-> percentileFloat64(sortedTputs, 999, 1000),
         StdDevRate |-> Variance(sortedRates, avgRate),
         StdDevTput |-> Variance(sortedTputs, avgTput)]

\* Message size aggregates from the flat list of sizes.
MsgSizeFields(msgSizes) ==
    IF Len(msgSizes) = 0
    THEN [AvgMsgSize |-> RZero, P50MsgSize |-> RZero, P90MsgSize |-> RZero,
          P99MsgSize |-> RZero, P999MsgSize |-> RZero, MinMsgSize |-> 0,
          MaxMsgSize |-> 0, StdDevMsgSize |-> RZero]
    ELSE
        LET sizesFloat == [i \in 1..Len(msgSizes) |-> RInt(msgSizes[i])]
            avg == RDivInt(RSum(sizesFloat), Len(msgSizes))
            sorted == SortFloat64s(sizesFloat)
        IN  [AvgMsgSize |-> avg,
             P50MsgSize |-> percentileFloat64(sorted, 50, 100),
             P90MsgSize |-> percentileFloat64(sorted, 90, 100),
             P99MsgSize |-> percentileFloat64(sorted, 99, 100),
             P999MsgSize |-> percentileFloat64(sorted, 999, 1000),
             MinMsgSize |-> RMinOf(sizesFloat).n,
             MaxMsgSize |-> RMaxOf(sizesFloat).n,
             StdDevMsgSize |-> Variance(sorted, avg)]

\* Aggregates of the per-bucket SeqRate, as for Rate.
SeqRateFields(buckets) ==
    LET n == Len(buckets)
        seqRates == [i \in 1..n |-> buckets[i].SeqRate]
        avg == RDivInt(RSum(seqRates), n)
        sorted == SortFloat64s(seqRates)
    IN  [AvgSeqRate |-> avg,
         P50SeqRate |-> percentileFloat64(sorted, 50, 100),
         P90SeqRate |-> percentileFloat64(sorted, 90, 100),
         P99SeqRate |-> percentileFloat64(sorted, 99, 100),
         P999SeqRate |-> percentileFloat64(sorted, 999, 1000),
         MinSeqRate |-> RMinOf(seqRates), MaxSeqRate |-> RMaxOf(seqRates),
         StdDevSeqRate |-> Variance(sorted, avg)]

calculateRateStats(buckets, totalMessages, totalBytes, startTime, endTime, msgSizes, firstSeq, lastSeq) ==
    IF Len(buckets) = 0 THEN ZeroStats
    ELSE
        LET totalDuration == endTime - startTime
            seqRate == IF totalDuration > 0
                       THEN Rat(U64Sub(lastSeq, firstSeq), totalDuration)
                       ELSE RZero
        IN  [TotalMessages |-> totalMessages, TotalBytes |-> totalBytes,
             StartTime |-> startTime, EndTime |-> endTime,
             TotalDuration |-> totalDuration,
             TotalBuckets |-> Len(buckets),
             FirstSeq |-> firstSeq, LastSeq |-> lastSeq, SeqRate |-> seqRate]
            @@ RateFields(buckets) @@ MsgSizeFields(msgSizes) @@ SeqRateFields(buckets)

\* The histogram.go revision: no time span ends, sizes or sequences.
ZeroStats0 ==
    [TotalMessages |-> 0, TotalBytes |-> 0, TotalDuration |-> 0,
     AvgRate |-> RZero, P50Rate |-> RZero, P90Rate |-> RZero, P99Rate |-> RZero,
     P999Rate |-> RZero, MinRate |-> RZero, MaxRate |-> RZero, StdDevRate |-> RZero,
     AvgThroughput |-> RZero, P50Throughput |-> RZero, P90Throughput |-> RZero,
     P99Throughput |-> RZero, P999Throughput |-> RZero, MinThroughput |-> RZero,
     MaxThroughput |-> RZero, StdDevTput |-> RZero,
     ActiveBuckets |-> 0, TotalBuckets |-> 0]

calculateRateStats0(buckets, totalMessages, totalBytes, totalDuration) ==
    IF Len(buckets) = 0 THEN ZeroStats0
    ELSE [TotalMessages |-> totalMessages, TotalBytes |-> totalBytes,
          TotalDuration |-> totalDuration, TotalBuckets |-> Len(buckets)]
         @@ RateFields(buckets)

(***************************************************************************)
(* BuildRateHistogram.                                                     *)
(***************************************************************************)
EmptyMap == [x \in {} |-> 0]

\* The zero value of RateBucket with its interval set.
NewBucket(start, end) ==
    [Start |-> start, End |-> end, Count |-> 0, SeqCount |-> 0, Bytes |-> 0,
     Rate |-> RZero, SeqRate |-> RZero, Throughput |-> RZero,
     MinMsgSize |-> 0, MaxMsgSize |-> 0, SumMsgSize |-> 0, PerStream |-> EmptyMap]

\* (*RateHistogram)(nil)
NilHist == [Nil |-> TRUE, Buckets |-> <<>>, Granularity |-> 0, Stats |-> ZeroStats]

NewHist(buckets, g, stats) ==
    [Nil |-> FALSE, Buckets |-> buckets, Granularity |-> g, Stats |-> stats]

\* NumBuckets counting one bucket too many.
NumBuckets_PlusOne(startTime, endTime, g) ==
    GoDiv(endTime - startTime, g) + 1

\* numBuckets := int(endTime.Sub(startTime) / granularity); 0 becomes 1.
NumBuckets(startTime, endTime, g) ==
    LET raw == GoDiv(endTime - startTime, g)
    IN  IF raw = 0 THEN 1 ELSE raw

\* make([]RateBucket, numBuckets) and the Start/End loop.
makeBuckets(startTime, numBuckets, g) ==
    [i \in 1..numBuckets |->
        NewBucket(startTime + (i - 1) * g, startTime + (i - 1) * g + g)]

\* The zero-based bucketIdx of a timestamp, clamped into the slice.
bucketIdx(ts, startTime, g, numBuckets) ==
    LET raw == GoDiv(ts - startTime, g)
        hi == IF raw >= numBuckets THEN numBuckets - 1 ELSE raw
    IN  IF hi < 0 THEN 0 ELSE hi

\* One iteration of the counting loop.
countMessage(buckets, msg, startTime, g) ==
    LET idx == bucketIdx(msg.Timestamp, startTime, g, Len(buckets))
    IN  [buckets EXCEPT ![idx + 1].Count = @ + 1,
                        ![idx + 1].Bytes = @ + msg.Size]

RECURSIVE countMessages(_, _, _, _)
countMessages(buckets, msgs, startTime, g) ==
    IF msgs = <<>> THEN buckets
    ELSE countMessages(countMessage(buckets, Head(msgs), startTime, g),
                       Tail(msgs), startTime, g)

\* buckets[i].Rate and buckets[i].Throughput.
setRates(buckets, g) ==
    [i \in 1..Len(buckets) |->
        [buckets[i] EXCEPT !.Rate = Rat(buckets[i].Count, g),
                           !.Throughput = Rat(buckets[i].Bytes, g)]]

\* minTime / maxTime as BuildRateHistogram takes them: the first and the last message.
rangeStart(msgs, g) == Truncate(msgs[1].Timestamp, g)

rangeEnd(msgs, g) == Truncate(msgs[Len(msgs)].Timestamp, g) + g

\* make() with a negative length is a runtime panic.
BuildPanics(msgs, g) ==
    /\ Len(msgs) > 0
    /\ NumBuckets(rangeStart(msgs, g), rangeEnd(msgs, g), g) < 0

(***************************************************************************)
(* Sequence-gap interpolation, per-source breakdown and per-bucket message *)
(* sizes.                                                                  *)
(***************************************************************************)
Min2(a, b) == IF a < b THEN a ELSE b

Max2(a, b) == IF a > b THEN a ELSE b

RECURSIVE SelectStream(_, _)
SelectStream(msgs, name) ==
    IF msgs = <<>> THEN <<>>
    ELSE IF Head(msgs).StreamName = name
         THEN <<Head(msgs)>> \o SelectStream(Tail(msgs), name)
         ELSE SelectStream(Tail(msgs), name)

\* Missing sequence numbers between two consecutive surviving messages.
SeqGap(m1, m2) ==
    IF m2.Sequence > m1.Sequence THEN m2.Sequence - m1.Sequence - 1 ELSE 0

\* Duration for which bucket b overlaps the interval between the two messages.
Overlap(b, m1, m2) ==
    LET lo == Min2(m1.Timestamp, m2.Timestamp)
        hi == Max2(m1.Timestamp, m2.Timestamp)
    IN  Max2(0, Min2(b.End, hi) - Max2(b.Start, lo))

RECURSIVE CumOverlap(_, _, _, _)
CumOverlap(buckets, i, m1, m2) ==
    IF i = 0 THEN 0
    ELSE CumOverlap(buckets, i - 1, m1, m2) + Overlap(buckets[i], m1, m2)

\* The share of the gap between m1 and m2 that bucket i receives: proportional to
\* the overlap, in whole messages, the shares adding up to the gap.
GapShare(buckets, i, m1, m2, g) ==
    LET gap == SeqGap(m1, m2)
        total == CumOverlap(buckets, Len(buckets), m1, m2)
    IN  IF total = 0
        THEN IF i = bucketIdx(m1.Timestamp, buckets[1].Start, g, Len(buckets)) + 1
             THEN gap ELSE 0
        ELSE (gap * CumOverlap(buckets, i, m1, m2)) \div total
             - (gap * CumOverlap(buckets, i - 1, m1, m2)) \div total

\* Interpolated deleted messages of one stream in bucket i.
StreamDeleted(buckets, i, smsgs, g) ==
    ISum([k \in 1..(Len(smsgs) - 1) |-> GapShare(buckets, i, smsgs[k], smsgs[k + 1], g)])

\* The messages counted into bucket i.
RECURSIVE InBucket(_, _, _, _)
InBucket(buckets, i, msgs, g) ==
    IF msgs = <<>> THEN <<>>
    ELSE IF bucketIdx(Head(msgs).Timestamp, buckets[1].Start, g, Len(buckets)) + 1 = i
         THEN <<Head(msgs)>> \o InBucket(buckets, i, Tail(msgs), g)
         ELSE InBucket(buckets, i, Tail(msgs), g)

Sizes(msgs) == [k \in 1..Len(msgs) |-> msgs[k].Size]

StreamBucketData(buckets, i, msgs, name, g) ==
    LET mine == SelectStream(msgs, name)
        here == InBucket(buckets, i, mine, g)
    IN  [Count |-> Len(here),
         SeqCount |-> Len(here) + StreamDeleted(buckets, i, mine, g),
         Bytes |-> ISum(Sizes(here))]

IMin(s) == CHOOSE x \in {s[k] : k \in 1..Len(s)} : \A k \in 1..Len(s) : x <= s[k]

IMax(s) == CHOOSE x \in {s[k] : k \in 1..Len(s)} : \A k \in 1..Len(s) : x >= s[k]

RECURSIVE SumDeleted(_, _)
SumDeleted(data, names) ==
    IF names = {} THEN 0
    ELSE LET name == CHOOSE x \in names : TRUE
         IN  (data[name].SeqCount - data[name].Count) + SumDeleted(data, names \ {name})

setSeqData(buckets, msgs, g) ==
    [i \in 1..Len(buckets) |->
        LET data == [name \in StreamNames |-> StreamBucketData(buckets, i, msgs, name, g)]
            present == {name \in StreamNames : data[name].SeqCount > 0}
            seqCount == buckets[i].Count + SumDeleted(data, StreamNames)
            here == Sizes(InBucket(buckets, i, msgs, g))
        IN  [buckets[i] EXCEPT
                !.SeqCount = seqCount,
                !.SeqRate = Rat(seqCount, g),
                !.MinMsgSize = IF here = <<>> THEN 0 ELSE IMin(here),
                !.MaxMsgSize = IF here = <<>> THEN 0 ELSE IMax(here),
                !.SumMsgSize = ISum(here),
                !.PerStream = [name \in present |-> data[name]]]]

BuildRateHistogram(msgs, g) ==
    IF Len(msgs) = 0 THEN NewHist(<<>>, g, ZeroStats)
    ELSE
        LET startTime == rangeStart(msgs, g)
            endTime == rangeEnd(msgs, g)
            numBuckets == NumBuckets(startTime, endTime, g)
            counted == countMessages(makeBuckets(startTime, numBuckets, g), msgs, startTime, g)
            buckets == setSeqData(setRates(counted, g), msgs, g)
        IN  NewHist(buckets, g,
                    calculateRateStats(buckets, Len(msgs), ISum(Sizes(msgs)),
                                       startTime, endTime, Sizes(msgs),
                                       msgs[1].Sequence, msgs[Len(msgs)].Sequence))

(***************************************************************************)
(* The histogram.go revision of BuildRateHistogram: the time range is      *)
(* found by scanning every message, buckets carry no sequence data.        *)
(***************************************************************************)
RECURSIVE minTimestamp(_)
minTimestamp(msgs) ==
    IF Len(msgs) = 1 THEN msgs[1].Timestamp
    ELSE Min2(Head(msgs).Timestamp, minTimestamp(Tail(msgs)))

RECURSIVE maxTimestamp(_)
maxTimestamp(msgs) ==
    IF Len(msgs) = 1 THEN msgs[1].Timestamp
    ELSE Max2(Head(msgs).Timestamp, maxTimestamp(Tail(msgs)))

RateBucket0(b) ==
    [Start |-> b.Start, End |-> b.End, Count |-> b.Count, Bytes |-> b.Bytes,
     Rate |-> b.Rate, Throughput |-> b.Throughput]

NilHist0 == [Nil |-> TRUE, Buckets |-> <<>>, Granularity |-> 0, Stats |-> ZeroStats0]

BuildRateHistogram0(msgs, g) ==
    IF Len(msgs) = 0
    THEN [Nil |-> FALSE, Buckets |-> <<>>, Granularity |-> g, Stats |-> ZeroStats0]
    ELSE
        LET startTime == Truncate(minTimestamp(msgs), g)
            endTime == Truncate(maxTimestamp(msgs), g) + g
            numBuckets == NumBuckets(startTime, endTime, g)
            counted == countMessages(makeBuckets(startTime, numBuckets, g), msgs, startTime, g)
            rated == setRates(counted, g)
            buckets == [i \in 1..Len(rated) |-> RateBucket0(rated[i])]
        IN  [Nil |-> FALSE, Buckets |-> buckets, Granularity |-> g,
             Stats |-> calculateRateStats0(buckets, Len(msgs), ISum(Sizes(msgs)),
                                           endTime - startTime)]

(***************************************************************************)
(* BuildReportSummary.                                                     *)
(***************************************************************************)
\* ReportSummary{StreamCount: streamCount}
EmptySummary(streamCount) ==
    [StartTime |-> 0, EndTime |-> 0, Duration |-> 0, StreamCount |-> streamCount,
     TotalMsgs |-> 0, TotalBytes |-> 0, TotalSeqs |-> 0, SeqRate |-> RZero,
     Streams |-> <<>>]

StreamsOf(msgs) == {msgs[k].StreamName : k \in 1..Len(msgs)}

Sequences(msgs) == [k \in 1..Len(msgs) |-> msgs[k].Sequence]

\* The StreamSummary accumulated for one stream name.
streamStat(msgs, name, duration) ==
    LET mine == SelectStream(msgs, name)
        firstSeq == IMin(Sequences(mine))
        lastSeq == IMax(Sequences(mine))
    IN  [Name |-> name, Messages |-> Len(mine), Bytes |-> ISum(Sizes(mine)),
         FirstSeq |-> firstSeq, LastSeq |-> lastSeq,
         SeqRate |-> IF duration > 0 THEN Rat(U64Sub(lastSeq, firstSeq), duration)
                     ELSE RZero]

RECURSIVE totalSeqs(_, _)
totalSeqs(msgs, names) ==
    IF names = {} THEN 0
    ELSE LET name == CHOOSE x \in names : TRUE
             ss == streamStat(msgs, name, 0)
         IN  U64Sub(ss.LastSeq, ss.FirstSeq) + totalSeqs(msgs, names \ {name})

\* Every order sort.Slice may leave the streams in: Messages descending, ties in
\* any order (map iteration order, unstable sort).
StreamOrders(msgs, duration) ==
    LET names == StreamsOf(msgs)
        n == Cardinality(names)
    IN  {[i \in 1..n |-> streamStat(msgs, f[i], duration)] :
            f \in {h \in [1..n -> names] :
                     /\ \A i, j \in 1..n : i # j => h[i] # h[j]
                     /\ \A i \in 1..(n - 1) :
                            Len(SelectStream(msgs, h[i])) >= Len(SelectStream(msgs, h[i + 1]))}}

\* The set of summaries BuildReportSummary may return.
BuildReportSummary(msgs, streamCount) ==
    IF Len(msgs) = 0 THEN {EmptySummary(streamCount)}
    ELSE
        LET startTime == msgs[1].Timestamp
            endTime == msgs[Len(msgs)].Timestamp
            duration == endTime - startTime
            seqs == totalSeqs(msgs, StreamsOf(msgs))
        IN  {[StartTime |-> startTime, EndTime |-> endTime, Duration |-> duration,
              StreamCount |-> streamCount, TotalMsgs |-> Len(msgs),
              TotalBytes |-> ISum(Sizes(msgs)), TotalSeqs |-> seqs,
              SeqRate |-> IF duration > 0 THEN Rat(seqs, duration) ELSE RZero,
              Streams |-> order] : order \in StreamOrders(msgs, duration)}

(***************************************************************************)
(* Statistics recomputed from a bucket slice alone.  Buckets carry no      *)
(* sequence numbers and no individual message sizes, so FirstSeq, LastSeq, *)
(* the overall SeqRate and the size percentiles / deviation keep their     *)
(* zero values; the size minimum, maximum and mean come from the buckets'  *)
(* MinMsgSize / MaxMsgSize / SumMsgSize.                                   *)
(***************************************************************************)
RECURSIVE ActiveOnly(_)
ActiveOnly(buckets) ==
    IF buckets = <<>> THEN <<>>
    ELSE IF Head(buckets).Count > 0
         THEN <<Head(buckets)>> \o ActiveOnly(Tail(buckets))
         ELSE ActiveOnly(Tail(buckets))

CalculateStatsFromBuckets(buckets) ==
    IF Len(buckets) = 0 THEN ZeroStats
    ELSE
        LET n == Len(buckets)
            active == ActiveOnly(buckets)
            totalMessages == ISum([i \in 1..n |-> buckets[i].Count])
            sumSizes == ISum([i \in 1..n |-> buckets[i].SumMsgSize])
        IN  [TotalMessages |-> totalMessages,
             TotalBytes |-> ISum([i \in 1..n |-> buckets[i].Bytes]),
             StartTime |-> buckets[1].Start, EndTime |-> buckets[n].End,
             TotalDuration |-> buckets[n].End - buckets[1].Start,
             TotalBuckets |-> n,
             FirstSeq |-> 0, LastSeq |-> 0, SeqRate |-> RZero,
             AvgMsgSize |-> IF totalMessages > 0 THEN Rat(sumSizes, totalMessages) ELSE RZero,
             MinMsgSize |-> IF active = <<>> THEN 0
                            ELSE IMin([i \in 1..Len(active) |-> active[i].MinMsgSize]),
             MaxMsgSize |-> IF active = <<>> THEN 0
                            ELSE IMax([i \in 1..Len(active) |-> active[i].MaxMsgSize]),
             P50MsgSize |-> RZero, P90MsgSize |-> RZero, P99MsgSize |-> RZero,
             P999MsgSize |-> RZero, StdDevMsgSize |-> RZero]
            @@ RateFields(buckets) @@ SeqRateFields(buckets)

(***************************************************************************)
(* filterHistogramByTime.                                                  *)
(***************************************************************************)
\* keepBucket testing the wrong end of the window in its second test.
keepBucket_WrongEnd(b, startTime, endTime) ==
    /\ ~(startTime # NoTime /\ b.End < startTime)
    /\ ~(endTime # NoTime /\ b.Start > startTime)

\* The loop body: FALSE when the bucket is skipped by one of the two continue tests.
keepBucket(b, startTime, endTime) ==
    /\ ~(startTime # NoTime /\ b.End < startTime)
    /\ ~(endTime # NoTime /\ b.Start > endTime)

RECURSIVE filterBuckets(_, _, _)
filterBuckets(buckets, startTime, endTime) ==
    IF buckets = <<>> THEN <<>>
    ELSE IF keepBucket(Head(buckets), startTime, endTime)
         THEN <<Head(buckets)>> \o filterBuckets(Tail(buckets), startTime, endTime)
         ELSE filterBuckets(Tail(buckets), startTime, endTime)

\* filterHistogramByTime dropping the granularity of an empty result.
filterHistogramByTime_NoGranularity(h, startTime, endTime) ==
    IF h.Nil \/ (startTime = NoTime /\ endTime = NoTime) THEN h
    ELSE
        LET filtered == filterBuckets(h.Buckets, startTime, endTime)
        IN  IF Len(filtered) = 0
            THEN NewHist(filtered, 0, ZeroStats)
            ELSE NewHist(filtered, h.Granularity, CalculateStatsFromBuckets(filtered))

filterHistogramByTime(h, startTime, endTime) ==
    IF h.Nil \/ (startTime = NoTime /\ endTime = NoTime) THEN h
    ELSE
        LET filtered == filterBuckets(h.Buckets, startTime, endTime)
        IN  IF Len(filtered) = 0
            THEN NewHist(filtered, h.Granularity, ZeroStats)
            ELSE NewHist(filtered, h.Granularity, CalculateStatsFromBuckets(filtered))

(***************************************************************************)
(* downsampleHistogram.                                                    *)
(***************************************************************************)
\* factorOf rounding down.
factorOf_Floor(n, maxBuckets) == Max2(1, n \div maxBuckets)

\* ceiling division
factorOf(n, maxBuckets) == (n + maxBuckets - 1) \div maxBuckets

\* mergePerStream keeping the data of the run's last bucket instead of the sums.
mergePerStream_LastOnly(buckets, i, end) ==
    LET names == UNION {DOMAIN buckets[j].PerStream : j \in i..end}
        part(j, name, field) ==
            IF name \in DOMAIN buckets[j].PerStream THEN buckets[j].PerStream[name][field]
            ELSE 0
    IN  [name \in names |->
            [Count |-> part(end, name, "Count"),
             SeqCount |-> part(end, name, "SeqCount"),
             Bytes |-> part(end, name, "Bytes")]]

\* Per-stream data of the run i..end summed per source name.
mergePerStream(buckets, i, end) ==
    LET names == UNION {DOMAIN buckets[j].PerStream : j \in i..end}
        part(j, name, field) ==
            IF name \in DOMAIN buckets[j].PerStream THEN buckets[j].PerStream[name][field]
            ELSE 0
    IN  [name \in names |->
            [Count |-> ISum([k \in 1..(end - i + 1) |-> part(i + k - 1, name, "Count")]),
             SeqCount |-> ISum([k \in 1..(end - i + 1) |-> part(i + k - 1, name, "SeqCount")]),
             Bytes |-> ISum([k \in 1..(end - i + 1) |-> part(i + k - 1, name, "Bytes")])]]

\* maxRate keeping the rate of the run's first bucket.
maxRate_First(buckets, i, end, field) == buckets[i][field]

\* The rate kept for a run when useAverage is false: the maximum, starting from 0.
maxRate(buckets, i, end, field) ==
    LET m == RMaxOf([k \in 1..(end - i + 1) |-> buckets[i + k - 1][field]])
    IN  IF RLess(RZero, m) THEN m ELSE RZero

\* aggregate summing Count into SeqCount.
aggregate_SeqFromCount(buckets, i, end, useAverage) ==
    LET run == [k \in 1..(end - i + 1) |-> buckets[i + k - 1]]
        count == ISum([k \in 1..Len(run) |-> run[k].Count])
        seqCount == ISum([k \in 1..Len(run) |-> run[k].Count])
        bytes == ISum([k \in 1..Len(run) |-> run[k].Bytes])
        duration == buckets[end].End - buckets[i].Start
    IN  [Start |-> buckets[i].Start, End |-> buckets[end].End,
         Count |-> count, SeqCount |-> seqCount, Bytes |-> bytes,
         Rate |-> IF ~useAverage THEN maxRate(buckets, i, end, "Rate")
                  ELSE IF duration > 0 THEN Rat(count, duration) ELSE RZero,
         SeqRate |-> IF ~useAverage THEN maxRate(buckets, i, end, "SeqRate")
                     ELSE IF duration > 0 THEN Rat(seqCount, duration) ELSE RZero,
         Throughput |-> IF ~useAverage THEN maxRate(buckets, i, end, "Throughput")
                        ELSE IF duration > 0 THEN Rat(bytes, duration) ELSE RZero,
         MinMsgSize |-> 0, MaxMsgSize |-> 0, SumMsgSize |-> 0,
         PerStream |-> mergePerStream(buckets, i, end)]

\* aggregate averaging over the width of the run's first bucket.
aggregate_FirstWidth(buckets, i, end, useAverage) ==
    LET run == [k \in 1..(end - i + 1) |-> buckets[i + k - 1]]
        count == ISum([k \in 1..Len(run) |-> run[k].Count])
        seqCount == ISum([k \in 1..Len(run) |-> run[k].SeqCount])
        bytes == ISum([k \in 1..Len(run) |-> run[k].Bytes])
        duration == buckets[i].End - buckets[i].Start
    IN  [Start |-> buckets[i].Start, End |-> buckets[end].End,
         Count |-> count, SeqCount |-> seqCount, Bytes |-> bytes,
         Rate |-> IF ~useAverage THEN maxRate(buckets, i, end, "Rate")
                  ELSE IF duration > 0 THEN Rat(count, duration) ELSE RZero,
         SeqRate |-> IF ~useAverage THEN maxRate(buckets, i, end, "SeqRate")
                     ELSE IF duration > 0 THEN Rat(seqCount, duration) ELSE RZero,
         Throughput |-> IF ~useAverage THEN maxRate(buckets, i, end, "Throughput")
                        ELSE IF duration > 0 THEN Rat(bytes, duration) ELSE RZero,
         MinMsgSize |-> 0, MaxMsgSize |-> 0, SumMsgSize |-> 0,
         PerStream |-> mergePerStream(buckets, i, end)]

\* The aggregate of buckets i..end (one-based, inclusive).
aggregate(buckets, i, end, useAverage) ==
    LET run == [k \in 1..(end - i + 1) |-> buckets[i + k - 1]]
        count == ISum([k \in 1..Len(run) |-> run[k].Count])
        seqCount == ISum([k \in 1..Len(run) |-> run[k].SeqCount])
        bytes == ISum([k \in 1..Len(run) |-> run[k].Bytes])
        duration == buckets[end].End - buckets[i].Start
    IN  [Start |-> buckets[i].Start, End |-> buckets[end].End,
         Count |-> count, SeqCount |-> seqCount, Bytes |-> bytes,
         Rate |-> IF ~useAverage THEN maxRate(buckets, i, end, "Rate")
                  ELSE IF duration > 0 THEN Rat(count, duration) ELSE RZero,
         SeqRate |-> IF ~useAverage THEN maxRate(buckets, i, end, "SeqRate")
                     ELSE IF duration > 0 THEN Rat(seqCount, duration) ELSE RZero,
         Throughput |-> IF ~useAverage THEN maxRate(buckets, i, end, "Throughput")
                        ELSE IF duration > 0 THEN Rat(bytes, duration) ELSE RZero,
         MinMsgSize |-> 0, MaxMsgSize |-> 0, SumMsgSize |-> 0,
         PerStream |-> mergePerStream(buckets, i, end)]

RECURSIVE mergeRuns(_, _, _, _)
mergeRuns(buckets, i, factor, useAverage) ==
    IF i > Len(buckets) THEN <<>>
    ELSE LET end == Min2(i + factor - 1, Len(buckets))
         IN  <<aggregate(buckets, i, end, useAverage)>>
             \o mergeRuns(buckets, i + factor, factor, useAverage)

\* downsampleHistogram merging also when the histogram has exactly maxBuckets buckets.
downsampleHistogram_StrictLess(h, maxBuckets, useAverage) ==
    IF h.Nil \/ Len(h.Buckets) < maxBuckets THEN h
    ELSE
        LET factor == factorOf(Len(h.Buckets), maxBuckets)
        IN  NewHist(mergeRuns(h.Buckets, 1, factor, useAverage),
                    h.Granularity * factor, h.Stats)

\* downsampleHistogram recomputing the statistics from the merged buckets.
downsampleHistogram_Recompute(h, maxBuckets, useAverage) ==
    IF h.Nil \/ Len(h.Buckets) <= maxBuckets THEN h
    ELSE
        LET factor == factorOf(Len(h.Buckets), maxBuckets)
            merged == mergeRuns(h.Buckets, 1, factor, useAverage)
        IN  NewHist(merged, h.Granularity * factor, CalculateStatsFromBuckets(merged))

downsampleHistogram(h, maxBuckets, useAverage) ==
    IF h.Nil \/ Len(h.Buckets) <= maxBuckets THEN h
    ELSE
        LET factor == factorOf(Len(h.Buckets), maxBuckets)
        IN  NewHist(mergeRuns(h.Buckets, 1, factor, useAverage),
                    h.Granularity * factor, h.Stats)

(***************************************************************************)
(* GUIServer.extractStreamHistogram.                                       *)
(***************************************************************************)
\* extractBucket deriving Rate from the byte count.
extractBucket_RateFromBytes(b, streamName, granularitySecs) ==
    IF streamName \in DOMAIN b.PerStream
    THEN LET streamData == b.PerStream[streamName]
         IN  [NewBucket(b.Start, b.End) EXCEPT
                 !.Count = streamData.Count,
                 !.SeqCount = streamData.SeqCount,
                 !.Bytes = streamData.Bytes,
                 !.Rate = Rat(streamData.Bytes, granularitySecs),
                 !.SeqRate = Rat(streamData.SeqCount, granularitySecs),
                 !.Throughput = Rat(streamData.Bytes, granularitySecs)]
    ELSE NewBucket(b.Start, b.End)

extractBucket(b, streamName, granularitySecs) ==
    IF streamName \in DOMAIN b.PerStream
    THEN LET streamData == b.PerStream[streamName]
         IN  [NewBucket(b.Start, b.End) EXCEPT
                 !.Count = streamData.Count,
                 !.SeqCount = streamData.SeqCount,
                 !.Bytes = streamData.Bytes,
                 !.Rate = Rat(streamData.Count, granularitySecs),
                 !.SeqRate = Rat(streamData.SeqCount, granularitySecs),
                 !.Throughput = Rat(streamData.Bytes, granularitySecs)]
    ELSE NewBucket(b.Start, b.End)

extractStreamHistogram(comb, streamName) ==
    IF comb.Nil THEN NilHist
    ELSE
        LET buckets == [i \in 1..Len(comb.Buckets) |->
                          extractBucket(comb.Buckets[i], streamName, comb.Granularity)]
        IN  NewHist(buckets, comb.Granularity, CalculateStatsFromBuckets(buckets))

(***************************************************************************)
(* convertHistogram: the JSON shape served to the GUI.                     *)
(***************************************************************************)
\* convertBucket copying Count into the seq_count field.
convertBucket_SeqFromCount(b) ==
    [Start |-> b.Start, End |-> b.End, Count |-> b.Count, SeqCount |-> b.Count,
     Bytes |-> b.Bytes, Rate |-> b.Rate, SeqRate |-> b.SeqRate,
     Throughput |-> b.Throughput, MinMsgSize |-> b.MinMsgSize,
     MaxMsgSize |-> b.MaxMsgSize, SumMsgSize |-> b.SumMsgSize,
     PerStream |-> [name \in DOMAIN b.PerStream |->
                      [Count |-> b.PerStream[name].Count,
                       SeqCount |-> b.PerStream[name].SeqCount,
                       Bytes |-> b.PerStream[name].Bytes]]]

convertBucket(b) ==
    [Start |-> b.Start, End |-> b.End, Count |-> b.Count, SeqCount |-> b.SeqCount,
     Bytes |-> b.Bytes, Rate |-> b.Rate, SeqRate |-> b.SeqRate,
     Throughput |-> b.Throughput, MinMsgSize |-> b.MinMsgSize,
     MaxMsgSize |-> b.MaxMsgSize, SumMsgSize |-> b.SumMsgSize,
     PerStream |-> [name \in DOMAIN b.PerStream |->
                      [Count |-> b.PerStream[name].Count,
                       SeqCount |-> b.PerStream[name].SeqCount,
                       Bytes |-> b.PerStream[name].Bytes]]]

convertStats(st) ==
    [TotalMessages |-> st.TotalMessages, TotalBytes |-> st.TotalBytes,
     StartTime |-> st.StartTime, EndTime |-> st.EndTime,
     TotalDurationNs |-> st.TotalDuration,
     AvgRate |-> st.AvgRate, P50Rate |-> st.P50Rate, P90Rate |-> st.P90Rate,
     P99Rate |-> st.P99Rate, P999Rate |-> st.P999Rate, MinRate |-> st.MinRate,
     MaxRate |-> st.MaxRate, StdDevRate |-> st.StdDevRate,
     AvgSeqRate |-> st.AvgSeqRate, P50SeqRate |-> st.P50SeqRate,
     P90SeqRate |-> st.P90SeqRate, P99SeqRate |-> st.P99SeqRate,
     P999SeqRate |-> st.P999SeqRate, MinSeqRate |-> st.MinSeqRate,
     MaxSeqRate |-> st.MaxSeqRate, StdDevSeqRate |-> st.StdDevSeqRate,
     AvgThroughput |-> st.AvgThroughput, P50Throughput |-> st.P50Throughput,
     P90Throughput |-> st.P90Throughput, P99Throughput |-> st.P99Throughput,
     P999Throughput |-> st.P999Throughput, MinThroughput |-> st.MinThroughput,
     MaxThroughput |-> st.MaxThroughput, StdDevThroughput |-> st.StdDevTput,
     AvgMsgSize |-> st.AvgMsgSize, P50MsgSize |-> st.P50MsgSize,
     P90MsgSize |-> st.P90MsgSize, P99MsgSize |-> st.P99MsgSize,
     P999MsgSize |-> st.P999MsgSize, MinMsgSize |-> st.MinMsgSize,
     MaxMsgSize |-> st.MaxMsgSize, StdDevMsgSize |-> st.StdDevMsgSize,
     FirstSeq |-> st.FirstSeq, LastSeq |-> st.LastSeq, SeqRate |-> st.SeqRate,
     ActiveBuckets |-> st.ActiveBuckets, TotalBuckets |-> st.TotalBuckets]

convertHistogram(h) ==
    IF h.Nil
    THEN [Buckets |-> <<>>, GranularityNs |-> 0, Stats |-> convertStats(ZeroStats)]
    ELSE [Buckets |-> [i \in 1..Len(h.Buckets) |-> convertBucket(h.Buckets[i])],
          GranularityNs |-> h.Granularity,
          Stats |-> convertStats(h.Stats)]

(***************************************************************************)
(* Inputs.  A stream's messages carry strictly increasing sequence numbers *)
(* in the order they were fetched; gap[k] sequence numbers are missing     *)
(* before message k.                                                       *)
(***************************************************************************)
RECURSIVE SeqOf(_, _, _)
SeqOf(k, gap, stream) ==
    LET earlier == {j \in 1..(k - 1) : stream[j] = stream[k]}
    IN  IF earlier = {} THEN 1 + gap[k]
        ELSE SeqOf(CHOOSE j \in earlier : \A i \in earlier : i <= j, gap, stream)
             + 1 + gap[k]

MkMessages(n, ts, size, gap, stream) ==
    [k \in 1..n |-> [StreamName |-> stream[k], Sequence |-> SeqOf(k, gap, stream),
                     Timestamp |-> ts[k], Size |-> size[k]]]

\* Sequences 100, 101, 105 between t = 0 and t = 4.
Scenarios ==
    {<<[StreamName |-> "A", Sequence |-> 100, Timestamp |-> 0, Size |-> 1],
       [StreamName |-> "A", Sequence |-> 101, Timestamp |-> tm, Size |-> 1],
       [StreamName |-> "A", Sequence |-> 105, Timestamp |-> 4, Size |-> 1]>> :
        tm \in 0..4}

IsTimeSorted(msgs) ==
    \A k \in 1..(Len(msgs) - 1) : msgs[k].Timestamp <= msgs[k + 1].Timestamp

\* Payload size of the messages of a stream in the lists the GUI server is built from.
SizeOfStream == [name \in StreamNames |-> IF name = "A" THEN 1 ELSE 2]

(***************************************************************************)
(* The parts of the state a run does not use.                              *)
(***************************************************************************)
NoArgs ==
    [buckets |-> <<>>, totalMessages |-> 0, totalBytes |-> 0, startTime |-> 0,
     endTime |-> 0, msgSizes |-> <<>>, firstSeq |-> 0, lastSeq |-> 0]

IdlePure ==
    /\ sortedValues = <<>>
    /\ pctCalls = <<>>
    /\ statArgs = NoArgs
    /\ statRes = <<>>

\* app.js {min: null, max: null}.
NoZoom == [min |-> NoTime, max |-> NoTime]

\* app.js lines 10-18: histogramData = null, requestVersion = 0,
\* currentAbortController = null, no zoom, no history, no timer.
IdleGui ==
    /\ requestVersion = 0
    /\ controller = 0
    /\ inflight = {}
    /\ histogramData = 0
    /\ displayed = 0
    /\ fullTimeRange = NoZoom
    /\ currentZoom = NoZoom
    /\ zoomHistory = <<>>
    /\ isUpdatingData = FALSE
    /\ zoomRefetchTimeout = FALSE
    /\ timers = {}

\* No fetch is running: the locals of FetchStreamMessages before its first line.
NoFetch ==
    [messages |-> <<>>, currentSeq |-> 0, useStartTime |-> FALSE,
     err |-> FALSE, returned |-> FALSE]

IdleFetch ==
    /\ jsStream = {}
    /\ streamInfo = [FirstSeq |-> 0, LastSeq |-> 0, MsgCount |-> 0]
    /\ fetchArgs = [batchSize |-> 1, limit |-> 0, startTime |-> NoTime, endTime |-> NoTime]
    /\ fetch = NoFetch
    /\ getBatchCalls = <<>>

\* A query parameter: not given, given but not a number, or a number of seconds.
NoParam == [given |-> FALSE, ok |-> FALSE, ts |-> 0]

NoRequest == [stream |-> "", start |-> NoParam, end |-> NoParam, downsample |-> ""]

IdleServe ==
    /\ histograms = [Nil |-> TRUE, byName |-> EmptyMap]
    /\ request = NoRequest
    /\ response = [status |-> 0, body |-> <<>>]

\* The histograms and the request state of a run that has only its messages.
IdleHistograms ==
    /\ granularity = 1
    /\ hist = NilHist
    /\ hist0 = NilHist0
    /\ summary = EmptySummary(0)
    /\ panicked = FALSE
    /\ combined = NilHist
    /\ view = NilHist
    /\ winStart = NoTime
    /\ winEnd = NoTime
    /\ parent = NilHist
    /\ dsMax = 0
    /\ dsAvg = FALSE

IdleCore ==
    /\ messages = <<>>
    /\ IdleHistograms

(***************************************************************************)
(* Calls of the builders on a message list.                                *)
(***************************************************************************)
\* A single-stream list: without sequence gaps in any timestamp order, or with
\* sequence gaps in the order run() sorts it into, or one of the scenario lists.
InitBuild ==
    /\ \/ \E n \in 0..MaxMsgs :
             \E ts \in [1..n -> 0..MaxTime], size \in [1..n -> 1..MaxSize] :
                messages = MkMessages(n, ts, size, [k \in 1..n |-> 0],
                                      [k \in 1..n |-> "A"])
       \/ \E n \in 1..MaxMsgs :
             \E ts \in [1..n -> 0..MaxTime], gap \in [1..n -> 0..MaxGap] :
                /\ \A k \in 1..(n - 1) : ts[k] <= ts[k + 1]
                /\ messages = MkMessages(n, ts, [k \in 1..n |-> 1], gap,
                                         [k \in 1..n |-> "A"])
       \/ messages \in Scenarios
    /\ granularity \in 1..MaxGran
    /\ hist = NilHist
    /\ hist0 = NilHist0
    /\ summary = EmptySummary(0)
    /\ panicked = FALSE
    /\ pc = "input"
    /\ combined = NilHist
    /\ view = NilHist
    /\ winStart = NoTime
    /\ winEnd = NoTime
    /\ parent = NilHist
    /\ dsMax = 0
    /\ dsAvg = FALSE
    /\ IdlePure
    /\ IdleGui
    /\ IdleFetch
    /\ IdleServe

CallBuildRateHistogram ==
    /\ pc = "input"
    /\ IF BuildPanics(messages, granularity)
       THEN /\ panicked' = TRUE
            /\ hist' = NilHist
       ELSE /\ panicked' = FALSE
            /\ hist' = BuildRateHistogram(messages, granularity)
    /\ pc' = "BuildRateHistogram"
    /\ UNCHANGED <<messages, granularity, hist0, summary, combined, view,
                   winStart, winEnd, parent, dsMax, dsAvg>>
    /\ UNCHANGED <<pureVars, guiVars, fetchVars, serveVars>>

CallBuildRateHistogram0 ==
    /\ pc = "input"
    /\ hist0' = BuildRateHistogram0(messages, granularity)
    /\ pc' = "BuildRateHistogram0"
    /\ UNCHANGED <<messages, granularity, hist, summary, panicked, combined, view,
                   winStart, winEnd, parent, dsMax, dsAvg>>
    /\ UNCHANGED <<pureVars, guiVars, fetchVars, serveVars>>

CallBuildReportSummary ==
    /\ pc \in {"input", "collected"}
    /\ \E streamCount \in Cardinality(StreamsOf(messages))..Cardinality(StreamNames) :
          summary' \in BuildReportSummary(messages, streamCount)
    /\ pc' = "BuildReportSummary"
    /\ UNCHANGED <<messages, granularity, hist, hist0, panicked, combined, view,
                   winStart, winEnd, parent, dsMax, dsAvg>>
    /\ UNCHANGED <<pureVars, guiVars, fetchVars, serveVars>>

NextBuild ==
    \/ CallBuildRateHistogram
    \/ CallBuildRateHistogram0
    \/ CallBuildReportSummary

SpecBuild == InitBuild /\ [][NextBuild]_vars

(***************************************************************************)
(* Requests against the histogram the GUI server holds.                    *)
(***************************************************************************)
WindowEnds == {NoTime} \cup 0..(MaxViewTime + 1)

\* The server holds the histogram run() built from the messages of up to two
\* streams after sorting them by timestamp; the first message has sequence 1.
InitView ==
    /\ granularity \in 1..MaxGran
    /\ \E n \in 0..MaxViewMsgs :
          \E ts \in [1..n -> 0..MaxViewTime], gap \in [2..n -> 0..MaxGap],
             stream \in [1..n -> StreamNames] :
             /\ \A k \in 1..(n - 1) : ts[k] <= ts[k + 1]
             /\ combined = BuildRateHistogram(
                     MkMessages(n, ts, [k \in 1..n |-> SizeOfStream[stream[k]]],
                                [k \in 1..n |-> IF k = 1 THEN 0 ELSE gap[k]], stream),
                     granularity)
    /\ messages = <<>>
    /\ hist = NilHist
    /\ hist0 = NilHist0
    /\ summary = EmptySummary(0)
    /\ panicked = FALSE
    /\ pc = "serve"
    /\ view = combined
    /\ winStart = NoTime
    /\ winEnd = NoTime
    /\ parent = NilHist
    /\ dsMax = 0
    /\ dsAvg = FALSE
    /\ IdlePure
    /\ IdleGui
    /\ IdleFetch
    /\ IdleServe

ExtractStream ==
    /\ pc = "serve"
    /\ \E streamName \in StreamNames :
          view' = extractStreamHistogram(combined, streamName)
    /\ parent' = combined
    /\ pc' = "extract"
    /\ UNCHANGED <<messages, granularity, hist, hist0, summary, panicked, combined,
                   winStart, winEnd, dsMax, dsAvg>>
    /\ UNCHANGED <<pureVars, guiVars, fetchVars, serveVars>>

FilterByTime ==
    /\ pc \in {"serve", "extract"}
    /\ \E startTime \in WindowEnds, endTime \in WindowEnds :
          /\ startTime = NoTime \/ endTime = NoTime \/ startTime <= endTime
          /\ winStart' = startTime
          /\ winEnd' = endTime
          /\ view' = filterHistogramByTime(view, startTime, endTime)
    /\ parent' = view
    /\ pc' = "filter"
    /\ UNCHANGED <<messages, granularity, hist, hist0, summary, panicked, combined,
                   dsMax, dsAvg>>
    /\ UNCHANGED <<pureVars, guiVars, fetchVars, serveVars>>

Downsample ==
    /\ pc \in {"serve", "extract", "filter"}
    /\ \E maxBuckets \in 1..MaxTarget, useAverage \in BOOLEAN :
          /\ dsMax' = maxBuckets
          /\ dsAvg' = useAverage
          /\ view' = downsampleHistogram(view, maxBuckets, useAverage)
    /\ parent' = view
    /\ winStart' = NoTime
    /\ winEnd' = NoTime
    /\ pc' = "downsample"
    /\ UNCHANGED <<messages, granularity, hist, hist0, summary, panicked, combined>>
    /\ UNCHANGED <<pureVars, guiVars, fetchVars, serveVars>>

NextView ==
    \/ ExtractStream
    \/ FilterByTime
    \/ Downsample

SpecView == InitView /\ [][NextView]_vars

(***************************************************************************)
(* Calls of percentileFloat64 and calculateRateStats on given arguments.   *)
(***************************************************************************)
\* callerSizes when the sizes are sorted in the caller's slice.
callerSizes_SortedInPlace(msgSizes) ==
    LET s == SortFloat64s([i \in 1..Len(msgSizes) |-> RInt(msgSizes[i])])
    IN  [i \in 1..Len(msgSizes) |-> s[i].n]

\* The slice calculateRateStats was given, as the caller finds it afterwards: the
\* function sorts sizesFloat, a slice it made itself, and only reads msgSizes.
callerSizes(msgSizes) == msgSizes

\* The buckets as the caller finds them afterwards: rates and throughputs are
\* slices the function made itself; buckets is ranged over by value.
callerBuckets(buckets) == buckets

\* The arguments BuildRateHistogram hands to calculateRateStats for msgs.
ArgsOf(msgs, g) ==
    LET h == BuildRateHistogram(msgs, g)
    IN  [buckets |-> h.Buckets, totalMessages |-> Len(msgs),
         totalBytes |-> ISum(Sizes(msgs)),
         startTime |-> rangeStart(msgs, g), endTime |-> rangeEnd(msgs, g),
         msgSizes |-> Sizes(msgs),
         firstSeq |-> msgs[1].Sequence, lastSeq |-> msgs[Len(msgs)].Sequence]

\* Either a sorted list of values for percentileFloat64, or the arguments of
\* calculateRateStats for a time-ordered message list.
InitStats ==
    /\ \/ /\ \E n \in 0..MaxLen :
                \E v \in [1..n -> 1..MaxValue] :
                   /\ \A k \in 1..(n - 1) : v[k] <= v[k + 1]
                   /\ sortedValues = [k \in 1..n |-> RInt(v[k])]
          /\ statArgs = NoArgs
          /\ pc = "sorted"
       \/ /\ \E n \in 1..MaxStatMsgs, g \in 1..MaxGran :
                \E ts \in [1..n -> 0..MaxTime], size \in [1..n -> 1..MaxSize] :
                   /\ \A k \in 1..(n - 1) : ts[k] <= ts[k + 1]
                   /\ statArgs = ArgsOf(MkMessages(n, ts, size, [k \in 1..n |-> 0],
                                                   [k \in 1..n |-> "A"]), g)
          /\ sortedValues = <<>>
          /\ pc = "args"
    /\ pctCalls = <<>>
    /\ statRes = <<>>
    /\ IdleCore
    /\ IdleGui
    /\ IdleFetch
    /\ IdleServe

CallPercentileFloat64 ==
    /\ pc \in {"sorted", "percentileFloat64"}
    /\ Len(pctCalls) < 2
    /\ \E pd \in 1..MaxDen : \E pn \in 0..pd :
          pctCalls' = Append(pctCalls,
                             [pn |-> pn, pd |-> pd,
                              result |-> percentileFloat64(sortedValues, pn, pd)])
    /\ pc' = "percentileFloat64"
    /\ UNCHANGED <<sortedValues, statArgs, statRes>>
    /\ UNCHANGED <<coreVars, guiVars, fetchVars, serveVars>>

CallCalculateRateStats ==
    /\ pc \in {"args", "calculateRateStats"}
    /\ Len(statRes) < 2
    /\ statRes' = Append(statRes,
                         [stats |-> calculateRateStats(
                                        statArgs.buckets, statArgs.totalMessages,
                                        statArgs.totalBytes, statArgs.startTime,
                                        statArgs.endTime, statArgs.msgSizes,
                                        statArgs.firstSeq, statArgs.lastSeq),
                          stats0 |-> calculateRateStats0(
                                        statArgs.buckets, statArgs.totalMessages,
                                        statArgs.totalBytes,
                                        statArgs.endTime - statArgs.startTime)])
    /\ statArgs' = [statArgs EXCEPT !.buckets = callerBuckets(@),
                                    !.msgSizes = callerSizes(@)]
    /\ pc' = "calculateRateStats"
    /\ UNCHANGED <<sortedValues, pctCalls>>
    /\ UNCHANGED <<coreVars, guiVars, fetchVars, serveVars>>

NextStats ==
    \/ CallPercentileFloat64
    \/ CallCalculateRateStats

SpecStats == InitStats /\ [][NextStats]_vars

(***************************************************************************)
(* The GUI session of app.js: histogram requests tagged with requestVersion,*)
(* the zoom window, its history and the isUpdatingData guard.               *)
(* A request is [tag, kind, aborted, zoom]; histogramData and               *)
(* displayed hold the tag of the request whose response they were taken     *)
(* from. A zoom window is [min, max] in chart time; {min: null, max: null}  *)
(* is NoZoom. A pending setTimeout callback that tests the version is       *)
(* [tag, kind] in timers; the debounced refetch is zoomRefetchTimeout.      *)
(***************************************************************************)
\* The selections the user drags: one unit of chart time, or the whole axis.
Windows ==
    {[min |-> a, max |-> a + 1] : a \in 0..(MaxZoomTime - 1)} \cup {[min |-> 0, max |-> MaxZoomTime]}

\* The time range of the buckets a load returns: the combined view covers the
\* whole axis, a single stream may start later.
DataRanges == {[min |-> a, max |-> MaxZoomTime] : a \in {0, 1}}

InitGui ==
    /\ IdleGui
    /\ IdleFetch
    /\ IdleServe
    /\ IdleCore
    /\ IdlePure
    /\ pc = "gui"

\* currentAbortController.abort(): the fetch bound to the current controller
\* will reject with an AbortError.
abortCurrent(requests) ==
    {IF r.tag = controller THEN [r EXCEPT !.aborted = TRUE] ELSE r : r \in requests}

\* The version, the abort and the new controller of a request function, up to
\* its await fetchJSON(...). zoom is the window the request keeps: savedZoom
\* of loadHistogram, the start and end in the URL of refetchHistogramForZoom.
issue(kind, zoom) ==
    /\ requestVersion' = requestVersion + 1
    /\ inflight' = abortCurrent(inflight)
                       \cup {[tag |-> requestVersion + 1, kind |-> kind,
                              aborted |-> FALSE, zoom |-> zoom]}
    /\ controller' = requestVersion + 1

\* loadHistogram(stream) up to its await: called by init and by onStreamChange.
\* It clears the pending refetch and resets isUpdatingData.
loadHistogram ==
    /\ pc = "gui"
    /\ requestVersion < MaxVersion
    /\ issue("load", currentZoom)
    /\ zoomRefetchTimeout' = FALSE
    /\ isUpdatingData' = FALSE
    /\ UNCHANGED <<histogramData, displayed, fullTimeRange, currentZoom, zoomHistory, timers>>
    /\ UNCHANGED <<coreVars, pc, pureVars, fetchVars, serveVars>>

\* refetchHistogramForZoom() up to its await: it leaves the zoom state, the
\* guard and the timers alone.
refetchHistogramForZoom ==
    /\ issue("refetch", currentZoom)
    /\ UNCHANGED <<histogramData, displayed, fullTimeRange, currentZoom, zoomHistory,
                   isUpdatingData, timers>>
    /\ UNCHANGED <<coreVars, pc, pureVars, fetchVars, serveVars>>

\* The change listener init() puts on the average-downsampling checkbox:
\* useAverageDownsampling = checked, then refetchHistogramForZoom().
toggleDownsampling ==
    /\ pc = "gui"
    /\ requestVersion < MaxVersion
    /\ refetchHistogramForZoom
    /\ UNCHANGED zoomRefetchTimeout

\* The callback of zoomRefetchTimeout (300 ms after onZoomChange, 100 ms after
\* a restore timer): refetchHistogramForZoom().
zoomRefetchFires ==
    /\ pc = "gui"
    /\ zoomRefetchTimeout
    /\ zoomRefetchTimeout' = FALSE
    /\ refetchHistogramForZoom

\* rateChart and throughputChart exist and their hooks and double-click
\* handlers are registered: a load has been applied, which also set fullTimeRange.
ChartsExist == fullTimeRange # NoZoom

\* isFullRange and newZoom of onZoomChange.
newZoomOf(min, max) ==
    IF min <= fullTimeRange.min /\ max >= fullTimeRange.max
    THEN NoZoom
    ELSE [min |-> min, max |-> max]

\* zoomHistory after the push of onZoomChange.
pushed(history, zoom, fromHistory) ==
    IF ~fromHistory /\ zoom # NoZoom THEN Append(history, zoom) ELSE history

\* onZoomChange(min, max): the setScale hook of both charts. The charts call
\* it with two arguments, so fromHistory is false.
onZoomChange(min, max) ==
    /\ pc = "gui"
    /\ ChartsExist
    /\ requestVersion < MaxVersion
    /\ IF isUpdatingData \/ newZoomOf(min, max) = currentZoom
       THEN UNCHANGED <<zoomHistory, currentZoom, zoomRefetchTimeout>>
       ELSE /\ Len(pushed(zoomHistory, currentZoom, FALSE)) <= MaxHistory
            /\ zoomHistory' = pushed(zoomHistory, currentZoom, FALSE)
            /\ currentZoom' = newZoomOf(min, max)
            /\ zoomRefetchTimeout' = TRUE
    /\ UNCHANGED <<requestVersion, controller, inflight, histogramData, displayed,
                   fullTimeRange, isUpdatingData, timers>>
    /\ UNCHANGED <<coreVars, pc, pureVars, fetchVars, serveVars>>

\* A selection the user drags on a chart, or the synced chart repeating it.
userZoom == \E w \in Windows : onZoomChange(w.min, w.max)

Front(q) == SubSeq(q, 1, Len(q) - 1)

\* zoomBack(): the double-click handler the charts register on their containers
\* when they are created. It takes a new version; it sends nothing and aborts
\* nothing. Charts exist only after a load with buckets, which also sets
\* fullTimeRange. The setScale call reaches onZoomChange with the guard set.
zoomBack ==
    /\ pc = "gui"
    /\ ChartsExist
    /\ requestVersion < MaxVersion
    /\ requestVersion' = requestVersion + 1
    /\ zoomRefetchTimeout' = FALSE
    /\ isUpdatingData' = TRUE
    /\ IF Len(zoomHistory) > 0
       THEN /\ currentZoom' = zoomHistory[Len(zoomHistory)]
            /\ zoomHistory' = Front(zoomHistory)
       ELSE /\ currentZoom' = NoZoom
            /\ UNCHANGED zoomHistory
    /\ timers' = timers \cup {[tag |-> requestVersion + 1, kind |-> "zoomBack"]}
    /\ UNCHANGED <<controller, inflight, histogramData, displayed, fullTimeRange>>
    /\ UNCHANGED <<coreVars, pc, pureVars, fetchVars, serveVars>>

\* The 50 ms callback of zoomBack and of the zoom restore of loadHistogram:
\* return when superseded, else clear the guard and schedule the refetch.
restoreTimerFires ==
    /\ pc = "gui"
    /\ \E t \in timers :
          /\ t.kind \in {"zoomBack", "load"}
          /\ timers' = timers \ {t}
          /\ IF t.tag # requestVersion
             THEN UNCHANGED <<isUpdatingData, zoomRefetchTimeout>>
             ELSE /\ isUpdatingData' = FALSE
                  /\ zoomRefetchTimeout' = TRUE
    /\ UNCHANGED <<requestVersion, controller, inflight, histogramData, displayed,
                   fullTimeRange, currentZoom, zoomHistory>>
    /\ UNCHANGED <<coreVars, pc, pureVars, fetchVars, serveVars>>

\* The 100 ms callback in the finally block of refetchHistogramForZoom: clear
\* the guard only when the request is still the current one.
updateTimerFires ==
    /\ pc = "gui"
    /\ \E t \in timers :
          /\ t.kind = "refetch"
          /\ timers' = timers \ {t}
          /\ isUpdatingData' = IF t.tag = requestVersion THEN FALSE ELSE isUpdatingData
    /\ UNCHANGED <<requestVersion, controller, inflight, histogramData, displayed,
                   fullTimeRange, currentZoom, zoomHistory, zoomRefetchTimeout>>
    /\ UNCHANGED <<coreVars, pc, pureVars, fetchVars, serveVars>>

\* The zoom restore of loadHistogram: clamp the saved window to the new range.
clampedZoom(savedZoom, range) ==
    [min |-> IF savedZoom.min > range.min THEN savedZoom.min ELSE range.min,
     max |-> IF savedZoom.max < range.max THEN savedZoom.max ELSE range.max]

\* The continuation of loadHistogram when its fetch settles:
\* histogramData = await fetchJSON(...), then the version test, fullTimeRange
\* from the buckets, the charts and the zoom restore. A failed fetch only
\* shows the error. /api/histogram without a window answers with every bucket
\* of a histogram built from at least one message, so the data have buckets.
loadResponse ==
    /\ pc = "gui"
    /\ \E r \in inflight : \E failed \in BOOLEAN : \E range \in DataRanges :
          /\ r.kind = "load"
          /\ ~r.aborted
          /\ inflight' = inflight \ {r}
          /\ IF failed
             THEN UNCHANGED <<histogramData, displayed, fullTimeRange, currentZoom,
                              isUpdatingData, timers>>
             ELSE /\ histogramData' = r.tag
                  /\ IF r.tag # requestVersion
                     THEN UNCHANGED <<displayed, fullTimeRange, currentZoom,
                                      isUpdatingData, timers>>
                     ELSE /\ displayed' = r.tag
                          /\ fullTimeRange' = range
                          /\ IF /\ r.zoom # NoZoom
                                /\ r.zoom.max > range.min
                                /\ r.zoom.min < range.max
                             THEN /\ currentZoom' = clampedZoom(r.zoom, range)
                                  /\ isUpdatingData' = TRUE
                                  /\ timers' = timers \cup {[tag |-> r.tag, kind |-> "load"]}
                             ELSE /\ currentZoom' = NoZoom
                                  /\ UNCHANGED <<isUpdatingData, timers>>
    /\ UNCHANGED <<requestVersion, controller, zoomHistory, zoomRefetchTimeout>>
    /\ UNCHANGED <<coreVars, pc, pureVars, fetchVars, serveVars>>

\* The continuation of refetchHistogramForZoom when its fetch settles: the
\* version test, the empty-data test, then histogramData = data, the guard,
\* the charts and the 100 ms timer; a failed fetch clears the guard when the
\* request is still the current one. Only a request with a window can come
\* back without buckets.
refetchResponse ==
    /\ pc = "gui"
    /\ \E r \in inflight : \E outcome \in {"data", "empty", "error"} :
          /\ r.kind = "refetch"
          /\ ~r.aborted
          /\ outcome = "empty" => r.zoom # NoZoom
          /\ inflight' = inflight \ {r}
          /\ IF outcome = "error"
             THEN /\ isUpdatingData' = IF r.tag = requestVersion THEN FALSE ELSE isUpdatingData
                  /\ UNCHANGED <<histogramData, displayed, timers>>
             ELSE IF r.tag # requestVersion \/ outcome = "empty"
             THEN UNCHANGED <<histogramData, displayed, isUpdatingData, timers>>
             ELSE /\ histogramData' = r.tag
                  /\ displayed' = r.tag
                  /\ isUpdatingData' = TRUE
                  /\ timers' = timers \cup {[tag |-> r.tag, kind |-> "refetch"]}
    /\ UNCHANGED <<requestVersion, controller, fullTimeRange, currentZoom, zoomHistory,
                   zoomRefetchTimeout>>
    /\ UNCHANGED <<coreVars, pc, pureVars, fetchVars, serveVars>>

\* The catch branch for an aborted fetch: AbortError is ignored.
abortError ==
    /\ pc = "gui"
    /\ \E r \in inflight :
          /\ r.aborted
          /\ inflight' = inflight \ {r}
    /\ UNCHANGED <<requestVersion, controller, histogramData, displayed, fullTimeRange,
                   currentZoom, zoomHistory, isUpdatingData, zoomRefetchTimeout, timers>>
    /\ UNCHANGED <<coreVars, pc, pureVars, fetchVars, serveVars>>

NextGui ==
    \/ loadHistogram
    \/ toggleDownsampling
    \/ zoomRefetchFires
    \/ userZoom
    \/ zoomBack
    \/ restoreTimerFires
    \/ updateTimerFires
    \/ loadResponse
    \/ refetchResponse
    \/ abortError

SpecGui == InitGui /\ [][NextGui]_vars

\* Timers and settled fetches run when they are due; the user's events and the
\* requests they send are under no obligation.
SpecGuiLive ==
    /\ SpecGui
    /\ WF_vars(zoomRefetchFires)
    /\ WF_vars(restoreTimerFires)
    /\ WF_vars(updateTimerFires)
    /\ WF_vars(loadResponse)
    /\ WF_vars(refetchResponse)
    /\ WF_vars(abortError)

(***************************************************************************)
(* FetchStreamMessages against a JetStream server.  The server holds the   *)
(* messages whose sequence numbers are in jsStream; the message with       *)
(* sequence s was stored at tick TimeOf(s).  One step of the call is one   *)
(* turn of its batch loop: the request, the server's answer and the range  *)
(* over the answer.  Between two turns the stream may receive a message or *)
(* lose its oldest one.                                                    *)
(***************************************************************************)
TimeOf(s) == (s + 1) \div 2

SetMin(S) == CHOOSE x \in S : \A y \in S : x <= y

SetMax(S) == CHOOSE x \in S : \A y \in S : x >= y

\* The n smallest members of S in ascending order (fewer if S is smaller).
RECURSIVE FirstN(_, _)
FirstN(S, n) ==
    IF n = 0 \/ S = {} THEN <<>>
    ELSE <<SetMin(S)>> \o FirstN(S \ {SetMin(S)}, n - 1)

\* What the iterator of GetBatch yields for one message: the message, or an error.
MsgItem(s) == [err |-> FALSE, Sequence |-> s, Time |-> TimeOf(s)]

ErrItem(s) == [err |-> TRUE, Sequence |-> s, Time |-> TimeOf(s)]

\* jetstreamext.GetBatch(ctx, js, name, fetchSize, GetBatchStartTime(t) | GetBatchSeq(seq)):
\* up to fetchSize surviving messages at or after the anchor in ascending sequence;
\* the fetch of any of them may fail and is then yielded as an error.
GetBatch(byStartTime, anchor, fetchSize) ==
    LET matching == IF byStartTime THEN {q \in jsStream : TimeOf(q) >= anchor}
                    ELSE {q \in jsStream : q >= anchor}
        seqs == FirstN(matching, fetchSize)
    IN  {[i \in 1..Len(seqs) |-> IF i \in failed THEN ErrItem(seqs[i]) ELSE MsgItem(seqs[i])] :
            failed \in SUBSET (1..Len(seqs))}

\* The state of the range over msgIter before its first item.
RangeStart(msgs) ==
    [messages |-> msgs, fetchedSeq |-> 0, batchCount |-> 0, hitEndTime |-> FALSE,
     stopped |-> FALSE]

\* The turn of the range without the end-time test.
rangeItem_NoEndTime(st, item, bounded) ==
    IF st.stopped \/ item.err THEN st
    ELSE IF bounded /\ item.Sequence > streamInfo.LastSeq
         THEN [st EXCEPT !.stopped = TRUE]
    ELSE [st EXCEPT !.messages = Append(@, [Sequence |-> item.Sequence, Timestamp |-> item.Time]),
                    !.fetchedSeq = item.Sequence,
                    !.batchCount = @ + 1,
                    !.stopped = fetchArgs.limit > 0 /\ Len(st.messages) + 1 >= fetchArgs.limit]

\* One turn of `for msg, err := range msgIter`; bounded is TRUE for the revision
\* that stops at the recorded last sequence (analyzer.go).
rangeItem(st, item, bounded) ==
    IF st.stopped \/ item.err THEN st
    ELSE IF fetchArgs.endTime # NoTime /\ item.Time > fetchArgs.endTime
         THEN [st EXCEPT !.hitEndTime = TRUE, !.stopped = TRUE]
    ELSE IF bounded /\ item.Sequence > streamInfo.LastSeq
         THEN [st EXCEPT !.stopped = TRUE]
    ELSE [st EXCEPT !.messages = Append(@, [Sequence |-> item.Sequence, Timestamp |-> item.Time]),
                    !.fetchedSeq = item.Sequence,
                    !.batchCount = @ + 1,
                    !.stopped = fetchArgs.limit > 0 /\ Len(st.messages) + 1 >= fetchArgs.limit]

RECURSIVE rangeMsgIter(_, _, _, _)
rangeMsgIter(st, batch, i, bounded) ==
    IF i > Len(batch) THEN st
    ELSE rangeMsgIter(rangeItem(st, batch[i], bounded), batch, i + 1, bounded)

\* fetchSize := batchSize, cut to the remaining count when a limit is set.
fetchSizeOf(have) ==
    IF fetchArgs.limit > 0 /\ fetchArgs.limit - have < fetchArgs.batchSize
    THEN fetchArgs.limit - have
    ELSE fetchArgs.batchSize

\* Trim to limit if needed, then return messages, nil.
trimToLimit(msgs) ==
    IF fetchArgs.limit > 0 /\ Len(msgs) > fetchArgs.limit
    THEN SubSeq(msgs, 1, fetchArgs.limit)
    ELSE msgs

\* The cursor left where the last accepted message was.
nextSeq_Same(fetchedSeq) == fetchedSeq

\* Move to next sequence after the last fetched message.
nextSeq(fetchedSeq) == fetchedSeq + 1

\* One turn of the batch loop of FetchStreamMessages, up to and including the
\* return when the turn leaves the loop.
fetchTurn(bounded) ==
    /\ ~fetch.returned
    /\ IF streamInfo.MsgCount = 0
          \/ ~(fetchArgs.limit = 0 \/ Len(fetch.messages) < fetchArgs.limit)
          \/ (bounded /\ fetch.currentSeq > streamInfo.LastSeq)
       THEN /\ fetch' = [fetch EXCEPT !.messages = trimToLimit(@), !.returned = TRUE]
            /\ UNCHANGED getBatchCalls
       ELSE LET fetchSize == fetchSizeOf(Len(fetch.messages))
                byStartTime == fetch.useStartTime
                anchor == IF byStartTime THEN fetchArgs.startTime ELSE fetch.currentSeq
                call == [byStartTime |-> byStartTime, anchor |-> anchor,
                         fetchSize |-> fetchSize, have |-> Len(fetch.messages)]
            IN  \/ /\ getBatchCalls' = Append(getBatchCalls, [call |-> call, failed |-> TRUE, batch |-> <<>>,
                                                               hitEndTime |-> FALSE])
                   /\ fetch' = [fetch EXCEPT !.useStartTime = FALSE, !.err = TRUE,
                                             !.returned = TRUE]
                \/ \E batch \in GetBatch(byStartTime, anchor, fetchSize) :
                      LET r == rangeMsgIter(RangeStart(fetch.messages), batch, 1, bounded)
                      IN  /\ getBatchCalls' = Append(getBatchCalls, [call |-> call, failed |-> FALSE, batch |-> batch,
                                                                      hitEndTime |-> r.hitEndTime])
                          /\ fetch' = IF r.hitEndTime \/ r.batchCount = 0
                                      THEN [fetch EXCEPT !.messages = trimToLimit(r.messages),
                                                         !.useStartTime = FALSE,
                                                         !.returned = TRUE]
                                      ELSE [fetch EXCEPT !.messages = r.messages,
                                                         !.currentSeq = nextSeq(r.fetchedSeq),
                                                         !.useStartTime = FALSE]
    /\ UNCHANGED <<jsStream, streamInfo, fetchArgs>>
    /\ UNCHANGED <<coreVars, pc, pureVars, guiVars, serveVars>>

\* The analyzer.go revision: stops at streamInfo.LastSeq.
FetchStreamMessages ==
    /\ pc = "fetch"
    /\ fetchTurn(TRUE)

\* The part_000 revision: no recorded last sequence.
FetchStreamMessages0 ==
    /\ pc = "fetch0"
    /\ fetchTurn(FALSE)

\* A publisher stores a message while the fetch runs.
Publish ==
    /\ pc \in {"fetch", "fetch0"}
    /\ ~fetch.returned
    /\ SetMax(jsStream \cup {0}) < MaxSeq
    /\ jsStream' = jsStream \cup {SetMax(jsStream \cup {0}) + 1}
    /\ UNCHANGED <<streamInfo, fetchArgs, fetch, getBatchCalls>>
    /\ UNCHANGED <<coreVars, pc, pureVars, guiVars, serveVars>>

\* The limits retention policy removes the oldest message while the fetch runs.
Expire ==
    /\ pc \in {"fetch", "fetch0"}
    /\ ~fetch.returned
    /\ Cardinality(jsStream) > 1
    /\ jsStream' = jsStream \ {SetMin(jsStream)}
    /\ UNCHANGED <<streamInfo, fetchArgs, fetch, getBatchCalls>>
    /\ UNCHANGED <<coreVars, pc, pureVars, guiVars, serveVars>>

\* StreamInfo as GetLimitsStreams records it (streams.go 58-66).
InfoOf(S) ==
    IF S = {} THEN [FirstSeq |-> 0, LastSeq |-> 0, MsgCount |-> 0]
    ELSE [FirstSeq |-> SetMin(S), LastSeq |-> SetMax(S), MsgCount |-> Cardinality(S)]

TimeArgs == {NoTime} \cup (1..TimeOf(MaxSeq))

InitFetch ==
    /\ \E S \in SUBSET (1..(MaxSeq - 1)) :
          /\ jsStream = S
          /\ streamInfo = InfoOf(S)
    /\ \E b \in 1..MaxBatch : \E l \in 0..MaxLimit : \E st \in TimeArgs : \E en \in TimeArgs :
          fetchArgs = [batchSize |-> b, limit |-> l, startTime |-> st, endTime |-> en]
    /\ fetch = [NoFetch EXCEPT !.currentSeq = streamInfo.FirstSeq,
                               !.useStartTime = fetchArgs.startTime # NoTime]
    /\ getBatchCalls = <<>>
    /\ pc \in {"fetch", "fetch0"}
    /\ IdleCore
    /\ IdlePure
    /\ IdleGui
    /\ IdleServe

NextFetch ==
    \/ FetchStreamMessages
    \/ FetchStreamMessages0
    \/ Publish
    \/ Expire

SpecFetch == InitFetch /\ [][NextFetch]_vars

\* The call is a running goroutine: a turn of its loop that can be taken is taken.
SpecFetchLive ==
    /\ SpecFetch
    /\ WF_vars(FetchStreamMessages)
    /\ WF_vars(FetchStreamMessages0)

(***************************************************************************)
(* GET /api/histogram.  The handler is given the 3000 of maxGUIBuckets;    *)
(* the model serves histograms of a few buckets, so the threshold is       *)
(* scaled down with them.                                                  *)
(***************************************************************************)
maxGUIBuckets == 2

\* strconv.ParseFloat on a given parameter, then time.Unix; nil otherwise.
parseTime(param) == IF param.given /\ param.ok THEN param.ts ELSE NoTime

\* The handler without the downsample step.
limitBuckets_Never(h, useAverage) == h

\* Downsample only if too many buckets.
limitBuckets(h, useAverage) ==
    IF ~h.Nil /\ Len(h.Buckets) > maxGUIBuckets
    THEN downsampleHistogram(h, maxGUIBuckets, useAverage)
    ELSE h

NotFound == [status |-> 404, body |-> <<>>]

\* The histogram picked for streamName: found is FALSE where the handler
\* answers "Stream not found".
pickHistogram(comb, hists, streamName) ==
    IF streamName = "" THEN [found |-> TRUE, h |-> comb]
    ELSE IF ~hists.Nil
         THEN IF streamName \in DOMAIN hists.byName
              THEN [found |-> TRUE, h |-> hists.byName[streamName]]
              ELSE [found |-> FALSE, h |-> NilHist]
         ELSE LET h == extractStreamHistogram(comb, streamName)
              IN  [found |-> ~h.Nil, h |-> h]

handleHistogram(comb, hists, req) ==
    LET picked == pickHistogram(comb, hists, req.stream)
        useAverageDownsample == req.downsample = "avg"
        startTime == parseTime(req.start)
        endTime == parseTime(req.end)
        filtered == IF startTime # NoTime \/ endTime # NoTime
                    THEN filterHistogramByTime(picked.h, startTime, endTime)
                    ELSE picked.h
    IN  IF ~picked.found THEN NotFound
        ELSE [status |-> 200,
              body |-> convertHistogram(limitBuckets(filtered, useAverageDownsample))]

Params == {NoParam, [given |-> TRUE, ok |-> FALSE, ts |-> 0]}
              \cup {[given |-> TRUE, ok |-> TRUE, ts |-> t] : t \in 0..MaxServeTime}

HandleHistogram ==
    /\ pc = "handle"
    /\ \E streamName \in {""} \cup StreamNames \cup {"C"}, startParam \in Params,
          endParam \in Params, downsampleParam \in {"", "avg", "max"} :
          /\ request' = [stream |-> streamName, start |-> startParam, end |-> endParam,
                         downsample |-> downsampleParam]
          /\ response' = handleHistogram(combined, histograms, request')
    /\ pc' = "handled"
    /\ UNCHANGED histograms
    /\ UNCHANGED <<coreVars, pureVars, guiVars, fetchVars>>

\* The per-stream histograms handed to NewGUIServer.
prebuilt(msgs, g) ==
    [name \in StreamsOf(msgs) |-> BuildRateHistogram(SelectStream(msgs, name), g)]

\* The server holds the histogram built once from the time-ordered messages of
\* up to two streams, with or without the per-stream histograms.
InitServe ==
    /\ \E n \in 1..MaxServeMsgs :
          \E ts \in [1..n -> 0..MaxServeTime], names \in [1..n -> StreamNames] :
             LET msgs == MkMessages(n, ts, [k \in 1..n |-> SizeOfStream[names[k]]],
                                    [k \in 1..n |-> 0], names)
             IN  /\ \A k \in 1..(n - 1) : ts[k] <= ts[k + 1]
                 /\ combined = BuildRateHistogram(msgs, 1)
                 /\ \/ histograms = [Nil |-> TRUE, byName |-> EmptyMap]
                    \/ histograms = [Nil |-> FALSE, byName |-> prebuilt(msgs, 1)]
    /\ granularity = 1
    /\ messages = <<>>
    /\ hist = NilHist
    /\ hist0 = NilHist0
    /\ summary = EmptySummary(0)
    /\ panicked = FALSE
    /\ view = NilHist
    /\ winStart = NoTime
    /\ winEnd = NoTime
    /\ parent = NilHist
    /\ dsMax = 0
    /\ dsAvg = FALSE
    /\ request = NoRequest
    /\ response = [status |-> 0, body |-> <<>>]
    /\ pc = "handle"
    /\ IdlePure
    /\ IdleGui
    /\ IdleFetch

NextServe == HandleHistogram

SpecServe == InitServe /\ [][NextServe]_vars

(***************************************************************************)
(* BuildReportSummary on the messages collected from up to two streams, in *)
(* any timestamp order.                                                    *)
(***************************************************************************)
InitSummary ==
    /\ \E n \in 1..MaxSumMsgs :
          \E ts \in [1..n -> 0..MaxTime], names \in [1..n -> StreamNames] :
             messages = MkMessages(n, ts, [k \in 1..n |-> SizeOfStream[names[k]]],
                                   [k \in 1..n |-> 0], names)
    /\ pc = "collected"
    /\ IdleHistograms
    /\ IdlePure
    /\ IdleGui
    /\ IdleFetch
    /\ IdleServe

NextSummary == CallBuildReportSummary

SpecSummary == InitSummary /\ [][NextSummary]_vars

(***************************************************************************)
(* Builder calls and server requests in one specification.                 *)
(***************************************************************************)
\* The histogram functions alone: BuildRateHistogram, BuildReportSummary and the
\* views the server derives from a combined histogram.
InitHistograms == InitBuild \/ InitView

NextHistograms == NextBuild \/ NextView

SpecHistograms == InitHistograms /\ [][NextHistograms]_vars

Init == InitBuild \/ InitView \/ InitStats \/ InitGui \/ InitFetch \/ InitServe \/ InitSummary

Next == NextBuild \/ NextView \/ NextStats \/ NextGui \/ NextFetch \/ NextServe \/ NextSummary

Spec == Init /\ [][Next]_vars

(***************************************************************************)
(* Properties.                                                             *)
(***************************************************************************)
TotalOf(buckets, field) == ISum([i \in 1..Len(buckets) |-> buckets[i][field]])

Built == pc = "BuildRateHistogram"

Built0 == pc = "BuildRateHistogram0"

\* Sums of Count and Bytes agree with the message list, in the buckets and in Stats.
SumsConserved(h) ==
    /\ TotalOf(h.Buckets, "Count") = Len(messages)
    /\ TotalOf(h.Buckets, "Bytes") = ISum(Sizes(messages))
    /\ h.Stats.TotalMessages = Len(messages)
    /\ h.Stats.TotalBytes = ISum(Sizes(messages))

Histograms == {hist, combined, view, parent}

\* C2: in every histogram built, extracted per stream, time-filtered or
\* downsampled, every bucket has SeqCount >= Count and SeqRate >= Rate.
C2_SeqNotBelowStored ==
    \A h \in Histograms : \A i \in 1..Len(h.Buckets) :
        /\ h.Buckets[i].SeqCount >= h.Buckets[i].Count
        /\ RLeq(h.Buckets[i].Rate, h.Buckets[i].SeqRate)

\* A downsampled view that merged buckets and carries interpolated deletions.
C2_Witness ==
    /\ pc = "downsample"
    /\ Len(view.Buckets) < Len(parent.Buckets)
    /\ \E i \in 1..Len(view.Buckets) :
          /\ view.Buckets[i].SeqCount > view.Buckets[i].Count
          /\ RLess(view.Buckets[i].Rate, view.Buckets[i].SeqRate)

\* Sum over consecutive surviving messages of s2 - s1 - 1.
GapTotal(msgs) ==
    ISum([k \in 1..(Len(msgs) - 1) |-> msgs[k + 1].Sequence - msgs[k].Sequence - 1])

Deleted(b) == b.SeqCount - b.Count

Layout(h, g) ==
    LET b == h.Buckets
        n == Len(b)
    IN  /\ n >= 1
        /\ b[1].Start = Truncate(minTimestamp(messages), g)
        /\ \A i \in 1..n : b[i].End = b[i].Start + g
        /\ \A i \in 1..(n - 1) : b[i].End = b[i + 1].Start
        /\ b[n].End = Truncate(maxTimestamp(messages), g) + g

CeilDiv(a, g) == (a + g - 1) \div g

ClaimedBuckets(msgs, g) ==
    Max2(1, CeilDiv(maxTimestamp(msgs) - Truncate(minTimestamp(msgs), g), g))

FloorBuckets(msgs, g) ==
    (maxTimestamp(msgs) - Truncate(minTimestamp(msgs), g)) \div g + 1

\* C5 as stated: the number of buckets is ceil((maxTime - truncate(minTime, g)) / g),
\* at least 1, also when maxTime is a multiple of g.
C5_CeilBuckets ==
    /\ (Built /\ ~panicked /\ Len(messages) > 0) =>
           Len(hist.Buckets) = ClaimedBuckets(messages, granularity)
    /\ (Built0 /\ Len(messages) > 0) =>
           Len(hist0.Buckets) = ClaimedBuckets(messages, granularity)

\* C5 amended: for non-empty input ordered by timestamp the number of buckets is
\* floor((maxTime - truncate(minTime, g)) / g) + 1.
C5_FloorBuckets ==
    /\ (Built /\ Len(messages) > 0 /\ IsTimeSorted(messages)) =>
           /\ ~panicked
           /\ Len(hist.Buckets) = FloorBuckets(messages, granularity)
    /\ (Built0 /\ Len(messages) > 0) =>
           Len(hist0.Buckets) = FloorBuckets(messages, granularity)

\* A time-ordered list whose latest message lies a whole number of buckets after
\* the start of the first bucket.
C5_Witness ==
    /\ Built
    /\ IsTimeSorted(messages)
    /\ Len(hist.Buckets) >= 2
    /\ (maxTimestamp(messages) - Truncate(minTimestamp(messages), granularity))
           % granularity = 0

\* floor((timestamp - bucketsStart) / g) clamped into [0, numBuckets - 1]
ClampedFloor(ts, buckets, g) ==
    Max2(0, Min2(Len(buckets) - 1, (ts - buckets[1].Start) \div g))

CountedOnce(h, g) ==
    LET b == h.Buckets
        idx(k) == ClampedFloor(messages[k].Timestamp, b, g)
        raw(k) == (messages[k].Timestamp - b[1].Start) \div g
    IN  /\ Len(b) >= 1
        /\ \A k \in 1..Len(messages) :
              /\ idx(k) \in 0..(Len(b) - 1)
              /\ raw(k) = idx(k) =>
                    /\ b[idx(k) + 1].Start <= messages[k].Timestamp
                    /\ messages[k].Timestamp < b[idx(k) + 1].End
        /\ \A i \in 1..Len(b) :
              /\ b[i].Count = Cardinality({k \in 1..Len(messages) : idx(k) = i - 1})
              /\ b[i].Bytes =
                    ISum([k \in 1..Len(messages) |->
                            IF idx(k) = i - 1 THEN messages[k].Size ELSE 0])

C7_EmptyResults ==
    /\ (Built /\ messages = <<>>) =>
           /\ ~panicked
           /\ hist = NewHist(<<>>, granularity, ZeroStats)
    /\ (Built0 /\ messages = <<>>) =>
           /\ ~hist0.Nil
           /\ hist0.Buckets = <<>>
           /\ hist0.Stats = ZeroStats0
           /\ hist0.Granularity = granularity
    /\ (pc = "filter" /\ ~parent.Nil /\ view.Buckets = <<>>) =>
           /\ ~view.Nil
           /\ view.Stats = ZeroStats
           /\ view.Granularity = parent.Granularity
    /\ (pc = "BuildReportSummary" /\ messages = <<>>) =>
           summary = EmptySummary(summary.StreamCount)

\* A window that matches none of the buckets of a non-empty histogram.
C7_Witness ==
    /\ pc = "filter"
    /\ Len(parent.Buckets) > 0
    /\ view.Buckets = <<>>
    /\ view.Granularity > 0

\* C8: a single message gives exactly one bucket with Count 1, no interpolated
\* deletions, Stats.LastSeq = Stats.FirstSeq and a zero sequence rate.
C8_SingleMessage ==
    /\ (Built /\ Len(messages) = 1) =>
           /\ ~panicked
           /\ Len(hist.Buckets) = 1
           /\ hist.Buckets[1].Count = 1
           /\ hist.Buckets[1].SeqCount - hist.Buckets[1].Count = 0
           /\ hist.Stats.LastSeq - hist.Stats.FirstSeq = 0
           /\ hist.Stats.SeqRate = RZero
    /\ (Built0 /\ Len(messages) = 1) =>
           /\ Len(hist0.Buckets) = 1
           /\ hist0.Buckets[1].Count = 1

\* A histogram built from one message whose sequence number is not the first.
C8_Witness ==
    /\ Built
    /\ Len(messages) = 1
    /\ hist.Stats.FirstSeq > 1
    /\ hist.Stats.TotalBuckets = 1

\* The last filter call was given the full span of its input as the window.
FullSpanFilter ==
    /\ pc = "filter"
    /\ Len(parent.Buckets) > 0
    /\ winStart = parent.Buckets[1].Start
    /\ winEnd = parent.Buckets[Len(parent.Buckets)].End

BucketFields ==
    {"TotalMessages", "TotalBytes", "StartTime", "EndTime", "TotalDuration",
     "AvgRate", "P50Rate", "P90Rate", "P99Rate", "P999Rate", "MinRate", "MaxRate",
     "StdDevRate", "AvgSeqRate", "P50SeqRate", "P90SeqRate", "P99SeqRate",
     "P999SeqRate", "MinSeqRate", "MaxSeqRate", "StdDevSeqRate", "AvgThroughput",
     "P50Throughput", "P90Throughput", "P99Throughput", "P999Throughput",
     "MinThroughput", "MaxThroughput", "StdDevTput", "AvgMsgSize", "MinMsgSize",
     "MaxMsgSize", "ActiveBuckets", "TotalBuckets"}

OverlapsWindow(b) ==
    /\ winStart = NoTime \/ b.End > winStart
    /\ winEnd = NoTime \/ b.Start < winEnd

\* C10: filterHistogramByTime returns exactly the buckets whose [Start, End)
\* overlaps the window [start, end), in their original order; a bucket ending at
\* start or starting at end is left out.
C10_HalfOpenOverlap ==
    (pc = "filter" /\ ~parent.Nil /\ (winStart # NoTime \/ winEnd # NoTime)) =>
        view.Buckets = SelectSeq(parent.Buckets, OverlapsWindow)

\* C11: downsampleHistogram with maxBuckets >= len(hist.Buckets) returns hist
\* unchanged (buckets, granularity and statistics) under either merge policy.
C11_SmallUnchanged ==
    (pc = "downsample" /\ dsMax >= Len(parent.Buckets)) => view = parent

\* A call with exactly as many buckets as the target, under each policy's flag.
C11_Witness ==
    /\ pc = "downsample"
    /\ Len(parent.Buckets) >= 2
    /\ dsMax = Len(parent.Buckets)
    /\ \E i \in 1..Len(view.Buckets) : view.Buckets[i].MaxMsgSize > 0

\* The last downsampleHistogram call had more buckets than its target.
Merged == pc = "downsample" /\ ~parent.Nil /\ Len(parent.Buckets) > dsMax

\* Run length ceil(N / M) of the last call.
RunLength == CeilDiv(Len(parent.Buckets), dsMax)

\* Indices of the input buckets that make up the i-th run.
Run(i) == ((i - 1) * RunLength + 1)..Min2(i * RunLength, Len(parent.Buckets))

RateNames == {"Rate", "SeqRate", "Throughput"}

\* C12: with useAverage = false the merged Rate, SeqRate and Throughput of every
\* run equal the maximum of that field over the buckets of the run.
C12_PeakIsMax ==
    (Merged /\ ~dsAvg) =>
        \A i \in 1..Len(view.Buckets) : \A f \in RateNames :
            /\ \A j \in Run(i) : RLeq(parent.Buckets[j][f], view.Buckets[i][f])
            /\ \E j \in Run(i) : parent.Buckets[j][f] = view.Buckets[i][f]

\* A peak-preserving merge of a run whose highest rate is not in its first bucket.
C12_Witness ==
    /\ Merged
    /\ ~dsAvg
    /\ \E i \in 1..Len(view.Buckets) :
          /\ Cardinality(Run(i)) >= 2
          /\ RLess(parent.Buckets[(i - 1) * RunLength + 1].Rate, view.Buckets[i].Rate)

CountNames == {"Count", "SeqCount", "Bytes"}

\* Sum of an integer field over the input buckets with the given indices.
RECURSIVE SumOver(_, _)
SumOver(idx, f) ==
    IF idx = {} THEN 0
    ELSE LET j == CHOOSE x \in idx : TRUE
         IN  parent.Buckets[j][f] + SumOver(idx \ {j}, f)

\* C13: under both policies each merged bucket's Count, SeqCount and Bytes are the
\* sums over its run, and the totals over all buckets are the same before and after.
C13_SumsKept ==
    Merged =>
        \A f \in CountNames :
            /\ \A i \in 1..Len(view.Buckets) : view.Buckets[i][f] = SumOver(Run(i), f)
            /\ TotalOf(view.Buckets, f) = TotalOf(parent.Buckets, f)

\* A merge of buckets that carry stored and interpolated messages.
C13_Witness ==
    /\ Merged
    /\ TotalOf(parent.Buckets, "SeqCount") > TotalOf(parent.Buckets, "Count")
    /\ TotalOf(parent.Buckets, "Bytes") > TotalOf(parent.Buckets, "Count")
    /\ \E i \in 1..Len(view.Buckets) : Cardinality(Run(i)) >= 2

\* Seconds from the first Start to the last End of the i-th run.
RunDuration(i) ==
    parent.Buckets[Min2(i * RunLength, Len(parent.Buckets))].End
        - parent.Buckets[(i - 1) * RunLength + 1].Start

\* C14: with useAverage = true each merged bucket has Rate = sum(Count) / d,
\* SeqRate = sum(SeqCount) / d and Throughput = sum(Bytes) / d, d being the seconds
\* from the run's first Start to its last End, also for a shorter final run.
C14_TrueAverage ==
    (Merged /\ dsAvg) =>
        \A i \in 1..Len(view.Buckets) :
            /\ RunDuration(i) > 0
            /\ view.Buckets[i].Rate.n * RunDuration(i)
                   = SumOver(Run(i), "Count") * view.Buckets[i].Rate.d
            /\ view.Buckets[i].SeqRate.n * RunDuration(i)
                   = SumOver(Run(i), "SeqCount") * view.Buckets[i].SeqRate.d
            /\ view.Buckets[i].Throughput.n * RunDuration(i)
                   = SumOver(Run(i), "Bytes") * view.Buckets[i].Throughput.d

\* An averaging merge with a full run of several buckets and a shorter final run.
C14_Witness ==
    /\ Merged
    /\ dsAvg
    /\ Len(view.Buckets) >= 2
    /\ Cardinality(Run(1)) > Cardinality(Run(Len(view.Buckets)))
    /\ view.Buckets[1].Count > 0

\* C15: for N buckets and target M < N the buckets are partitioned in order into
\* runs of length ceil(N / M), only the last possibly shorter; each merged bucket
\* spans its run's first Start to its last End; the granularity is multiplied by
\* ceil(N / M).
C15_RunPartition ==
    Merged =>
        /\ Len(view.Buckets) = CeilDiv(Len(parent.Buckets), RunLength)
        /\ \A i \in 1..Len(view.Buckets) :
              /\ Run(i) # {}
              /\ i < Len(view.Buckets) => Cardinality(Run(i)) = RunLength
              /\ view.Buckets[i].Start = parent.Buckets[(i - 1) * RunLength + 1].Start
              /\ view.Buckets[i].End =
                     parent.Buckets[Min2(i * RunLength, Len(parent.Buckets))].End
        /\ UNION {Run(i) : i \in 1..Len(view.Buckets)} = 1..Len(parent.Buckets)
        /\ view.Granularity = parent.Granularity * RunLength

\* Three buckets merged for a target of two: runs of two and one.
C15_Witness ==
    /\ Merged
    /\ Len(parent.Buckets) = 3
    /\ dsMax = 2
    /\ Len(view.Buckets) = 2
    /\ view.Granularity = 2 * parent.Granularity

\* C16: downsampleHistogram returns the Stats of its input field for field and
\* leaves the input histogram as it was.
C16_StatsCarried ==
    [][Downsample => (view'.Stats = view.Stats /\ parent' = view /\ combined' = combined)]_vars

\* A merged result whose statistics still describe the full-resolution buckets.
C16_Witness ==
    /\ Merged
    /\ view.Stats = parent.Stats
    /\ view.Stats.TotalBuckets > Len(view.Buckets)
    /\ combined.Stats.TotalBuckets = Len(combined.Buckets)

\* Per-source field f summed over the input buckets with the given indices.
RECURSIVE SourceSum(_, _, _)
SourceSum(idx, name, f) ==
    IF idx = {} THEN 0
    ELSE LET j == CHOOSE x \in idx : TRUE
             here == IF name \in DOMAIN parent.Buckets[j].PerStream
                     THEN parent.Buckets[j].PerStream[name][f] ELSE 0
         IN  here + SourceSum(idx \ {j}, name, f)

\* Sum of per-source field f over the sources of bucket b.
RECURSIVE AcrossSources(_, _, _)
AcrossSources(b, names, f) ==
    IF names = {} THEN 0
    ELSE LET name == CHOOSE x \in names : TRUE
         IN  b.PerStream[name][f] + AcrossSources(b, names \ {name}, f)

\* The per-source Counts / Bytes of bucket b add up to its Count / Bytes.
SourcesAddUp(b) ==
    /\ AcrossSources(b, DOMAIN b.PerStream, "Count") = b.Count
    /\ AcrossSources(b, DOMAIN b.PerStream, "Bytes") = b.Bytes

\* C17: downsampleHistogram sums Count, SeqCount and Bytes per source name over
\* each run under either policy; a source absent from a run is absent from the
\* merged bucket; and if the per-source Counts / Bytes add up to the bucket's in
\* every input bucket, they do in every merged bucket.
C17_PerSourceSums ==
    Merged =>
        /\ \A i \in 1..Len(view.Buckets) :
              /\ DOMAIN view.Buckets[i].PerStream =
                     UNION {DOMAIN parent.Buckets[j].PerStream : j \in Run(i)}
              /\ \A name \in DOMAIN view.Buckets[i].PerStream : \A f \in CountNames :
                     view.Buckets[i].PerStream[name][f] = SourceSum(Run(i), name, f)
        /\ (\A j \in 1..Len(parent.Buckets) : SourcesAddUp(parent.Buckets[j])) =>
              \A i \in 1..Len(view.Buckets) : SourcesAddUp(view.Buckets[i])

\* A run that merges buckets of two sources next to a run that lacks one of them.
C17_Witness ==
    /\ Merged
    /\ \A j \in 1..Len(parent.Buckets) : SourcesAddUp(parent.Buckets[j])
    /\ \E i \in 1..Len(view.Buckets) :
          /\ Cardinality(Run(i)) >= 2
          /\ \E j \in Run(i) :
                DOMAIN parent.Buckets[j].PerStream # DOMAIN view.Buckets[i].PerStream
          /\ DOMAIN view.Buckets[i].PerStream # {}

\* p * (n - 1) as a fraction, and the order statistics on either side of it.
R7(values, pn, pd) ==
    LET n == Len(values)
        idx == Rat(pn * (n - 1), pd)
        lo == idx.n \div idx.d
        hi == IF idx.n % idx.d = 0 THEN lo ELSE lo + 1
        frac == RSub(idx, RInt(lo))
    IN  RAdd(values[lo + 1], RMul(frac, RSub(values[hi + 1], values[lo + 1])))

\* C18: percentileFloat64(sorted, p) is the R-7 percentile: index p * (n - 1),
\* linear interpolation between the order statistics below and above it.  It is 0
\* for an empty list, the element of a one-element list, 2.5 for [1, 2, 3, 4] at
\* p = 0.5, the last element at p = 1, lies between the first and the last element,
\* and does not decrease when p grows.
C18_PercentileR7 ==
    LET n == Len(sortedValues)
    IN  /\ \A k \in 1..Len(pctCalls) :
              LET c == pctCalls[k]
              IN  /\ n = 0 => c.result = RZero
                  /\ n = 1 => c.result = sortedValues[1]
                  /\ n >= 1 => /\ c.result = R7(sortedValues, c.pn, c.pd)
                               /\ RLeq(sortedValues[1], c.result)
                               /\ RLeq(c.result, sortedValues[n])
                  /\ (n >= 1 /\ c.pn = c.pd) => c.result = sortedValues[n]
                  /\ (sortedValues = <<RInt(1), RInt(2), RInt(3), RInt(4)>>
                         /\ 2 * c.pn = c.pd) => c.result = Rat(5, 2)
        /\ (Len(pctCalls) = 2
               /\ pctCalls[1].pn * pctCalls[2].pd <= pctCalls[2].pn * pctCalls[1].pd) =>
              RLeq(pctCalls[1].result, pctCalls[2].result)

\* [1, 2, 3, 4] asked for its lower quartile and then for its median.
C18_Witness ==
    /\ sortedValues = <<RInt(1), RInt(2), RInt(3), RInt(4)>>
    /\ Len(pctCalls) = 2
    /\ pctCalls[1].pn = 1 /\ pctCalls[1].pd = 4
    /\ pctCalls[2].pn = 1 /\ pctCalls[2].pd = 2
    /\ pctCalls[1].result = Rat(7, 4)
    /\ pctCalls[2].result = Rat(5, 2)

Tags(requests) == {r.tag : r \in requests}

\* C20: every histogram request carries the requestVersion it set when issued,
\* requestVersion only increases, a response whose tag differs from requestVersion
\* when it completes changes neither histogramData nor what the charts and
\* statistics show, and the data shown never go back to an earlier request.
C20_StaleDiscarded ==
    [][/\ requestVersion' >= requestVersion
       /\ \A t \in Tags(inflight') \ Tags(inflight) :
             t = requestVersion' /\ requestVersion' = requestVersion + 1
       /\ \A t \in Tags(inflight) \ Tags(inflight') :
             t # requestVersion =>
                 (histogramData' = histogramData /\ displayed' = displayed)
       /\ displayed' >= displayed
       /\ histogramData' >= histogramData]_vars

(***************************************************************************)
(* FetchStreamMessages.                                                    *)
(***************************************************************************)
Fetching == pc \in {"fetch", "fetch0"}

Returned == Fetching /\ fetch.returned

SeqsOf(msgs) == [i \in 1..Len(msgs) |-> msgs[i].Sequence]

StrictlyIncreasing(q) == \A i \in 1..Len(q) : \A j \in 1..Len(q) : i < j => q[i] < q[j]

\* C21: at every point of the fetch the accumulated list has strictly
\* increasing sequence numbers (no message is accumulated twice), and every
\* batch after the first is requested by sequence, at the last accepted
\* sequence + 1.
C21_ExactlyOnce ==
    Fetching =>
        /\ StrictlyIncreasing(SeqsOf(fetch.messages))
        /\ \A k \in 2..Len(getBatchCalls) :
              LET c == getBatchCalls[k].call
              IN  /\ ~c.byStartTime
                  /\ c.have > 0
                  /\ c.anchor = fetch.messages[c.have].Sequence + 1

\* A fetch of three messages in more than one batch has returned.
C21_Witness ==
    /\ Returned
    /\ ~fetch.err
    /\ Len(getBatchCalls) >= 2
    /\ Len(fetch.messages) >= 3

\* The sequence numbers the server yielded as errors so far.
ErroredSeqs ==
    UNION {{getBatchCalls[k].batch[i].Sequence :
               i \in {j \in 1..Len(getBatchCalls[k].batch) : getBatchCalls[k].batch[j].err}} :
           k \in 1..Len(getBatchCalls)}

\* No message recorded in streamInfo has expired since.
NoneExpired == Cardinality({q \in jsStream : q <= streamInfo.LastSeq}) = streamInfo.MsgCount

NoWindow == fetchArgs.startTime = NoTime /\ fetchArgs.endTime = NoTime

Accepted == {fetch.messages[i].Sequence : i \in 1..Len(fetch.messages)}

\* The recorded messages that survive, less those whose fetch failed and was
\* not repeated with success.
Survivors == {q \in jsStream : q <= streamInfo.LastSeq} \ (ErroredSeqs \ Accepted)

LimitKept ==
    (Fetching /\ fetchArgs.limit > 0) =>
        /\ Len(fetch.messages) <= fetchArgs.limit
        /\ \A k \in 1..Len(getBatchCalls) :
              LET c == getBatchCalls[k].call
              IN  c.fetchSize >= 1 /\ c.fetchSize <= fetchArgs.limit - c.have

FirstLimitReturned ==
    (/\ pc = "fetch"
     /\ fetch.returned
     /\ ~fetch.err
     /\ fetchArgs.limit > 0
     /\ NoWindow
     /\ NoneExpired
     /\ Cardinality(Survivors) >= fetchArgs.limit)
        => SeqsOf(fetch.messages) = FirstN(Survivors, fetchArgs.limit)

\* C22: with limit > 0 the call never holds more than limit messages and never
\* asks for more than limit - fetched in one batch, and when at least limit
\* recorded messages survive (no time window) it returns exactly the first
\* limit of them.
C22_FirstLimit ==
    /\ LimitKept
    /\ FirstLimitReturned

\* C23: no accumulated message is later than endTime; a batch in which a
\* message past endTime was met is the last request and the call has returned
\* with nothing at or beyond that message; the start-time anchor is used by
\* the first request only (and only when startTime is set), every other
\* request is by sequence number.
C23_TimeWindow ==
    Fetching =>
        /\ fetchArgs.endTime # NoTime =>
              \A i \in 1..Len(fetch.messages) : fetch.messages[i].Timestamp <= fetchArgs.endTime
        /\ \A k \in 1..Len(getBatchCalls) :
              getBatchCalls[k].hitEndTime =>
                  /\ fetchArgs.endTime # NoTime
                  /\ k = Len(getBatchCalls)
                  /\ fetch.returned
                  /\ \E i \in 1..Len(getBatchCalls[k].batch) :
                        /\ ~getBatchCalls[k].batch[i].err
                        /\ getBatchCalls[k].batch[i].Time > fetchArgs.endTime
                        /\ \A q \in Accepted : q < getBatchCalls[k].batch[i].Sequence
        /\ \A k \in 1..Len(getBatchCalls) :
              LET c == getBatchCalls[k].call
              IN  /\ c.byStartTime <=> (k = 1 /\ fetchArgs.startTime # NoTime)
                  /\ c.byStartTime => c.anchor = fetchArgs.startTime
                  /\ (~c.byStartTime /\ k = 1) => c.anchor = streamInfo.FirstSeq

\* A fetch with both ends of the window set took three requests and stopped
\* at a message past endTime.
C23_Witness ==
    /\ Returned
    /\ fetchArgs.startTime # NoTime
    /\ fetchArgs.endTime # NoTime
    /\ Len(getBatchCalls) >= 3
    /\ getBatchCalls[Len(getBatchCalls)].hitEndTime
    /\ Len(fetch.messages) >= 2

NonErrItems(k) ==
    {i \in 1..Len(getBatchCalls[k].batch) : ~getBatchCalls[k].batch[i].err}

\* Every accumulated record is a message the server yielded without error.
OnlyYielded ==
    \A q \in Accepted :
        \E k \in 1..Len(getBatchCalls) : \E i \in NonErrItems(k) :
            getBatchCalls[k].batch[i].Sequence = q

\* The error returned is that of the failed batch request, with the messages
\* accumulated before it.
OnlyBatchFailureReported ==
    /\ fetch.err <=> (getBatchCalls # <<>> /\ getBatchCalls[Len(getBatchCalls)].failed)
    /\ fetch.err =>
          /\ fetch.returned
          /\ Len(fetch.messages) = getBatchCalls[Len(getBatchCalls)].call.have

\* Without limit and time window, a call that returns nil has every recorded
\* surviving message whose fetch did not fail.
FollowingFetched ==
    (/\ Returned
     /\ ~fetch.err
     /\ fetchArgs.limit = 0
     /\ NoWindow
     /\ NoneExpired)
        => Survivors \subseteq Accepted

\* C24: an item yielded as an error adds no record and is not reported, only
\* a failed batch request is, together with the messages accumulated so far;
\* and the surviving messages after an error item, up to the recorded last
\* sequence, are still fetched.
C24_ErrorsSkipped ==
    Fetching =>
        /\ OnlyYielded
        /\ OnlyBatchFailureReported
        /\ FollowingFetched

(***************************************************************************)
(* GET /api/histogram.                                                     *)
(***************************************************************************)
\* The stored histogram the request names.
Requested ==
    IF request.stream = "" THEN combined
    ELSE IF ~histograms.Nil THEN histograms.byName[request.stream]
    ELSE extractStreamHistogram(combined, request.stream)

Known ==
    request.stream = "" \/ histograms.Nil \/ request.stream \in DOMAIN histograms.byName

WindowStart == IF request.start.given /\ request.start.ok THEN request.start.ts ELSE NoTime

WindowEnd == IF request.end.given /\ request.end.ok THEN request.end.ts ELSE NoTime

Windowed ==
    IF WindowStart # NoTime \/ WindowEnd # NoTime
    THEN filterHistogramByTime(Requested, WindowStart, WindowEnd)
    ELSE Requested

Served ==
    IF ~Known THEN response.status = 404
    ELSE /\ response.status = 200
         /\ Len(response.body.Buckets) <= maxGUIBuckets
         /\ response.body =
               convertHistogram(
                   IF Len(Windowed.Buckets) > maxGUIBuckets
                   THEN downsampleHistogram(Windowed, maxGUIBuckets, request.downsample = "avg")
                   ELSE Windowed)

\* C25: the handler answers with the requested stored histogram, filtered by
\* the time window when start or end is given, then downsampled only if more
\* than maxGUIBuckets buckets are left, by average exactly when downsample=avg
\* and by peak otherwise; the body never has more than maxGUIBuckets buckets
\* and the stored histograms are the same after the request.
C25_FilterThenDownsample ==
    /\ [](pc = "handled" => Served)
    /\ [][(pc = "handle" /\ pc' = "handled") =>
             (combined' = combined /\ histograms' = histograms)]_vars

\* A request with a start time and downsample=avg whose window still holds
\* more than maxGUIBuckets buckets.
C25_Witness ==
    /\ pc = "handled"
    /\ response.status = 200
    /\ WindowStart # NoTime
    /\ request.downsample = "avg"
    /\ Len(Windowed.Buckets) > maxGUIBuckets
    /\ Len(response.body.Buckets) >= 2

(***************************************************************************)
(* BuildReportSummary.                                                     *)
(***************************************************************************)
Summarised == pc = "BuildReportSummary" /\ Len(messages) > 0

StreamRows == {summary.Streams[i] : i \in 1..Len(summary.Streams)}

SeqsOfStream(name) == {messages[k].Sequence : k \in {j \in 1..Len(messages) : messages[j].StreamName = name}}

Totals ==
    /\ summary.TotalMsgs = Len(messages)
    /\ summary.TotalBytes = ISum(Sizes(messages))

PerStreamRows ==
    /\ Len(summary.Streams) = Cardinality(StreamsOf(messages))
    /\ {summary.Streams[i].Name : i \in 1..Len(summary.Streams)} = StreamsOf(messages)
    /\ ISum([i \in 1..Len(summary.Streams) |-> summary.Streams[i].Messages]) = summary.TotalMsgs
    /\ ISum([i \in 1..Len(summary.Streams) |-> summary.Streams[i].Bytes]) = summary.TotalBytes
    /\ \A i \in 1..Len(summary.Streams) :
          /\ summary.Streams[i].Messages = Len(SelectStream(messages, summary.Streams[i].Name))
          /\ summary.Streams[i].FirstSeq = SetMin(SeqsOfStream(summary.Streams[i].Name))
          /\ summary.Streams[i].LastSeq = SetMax(SeqsOfStream(summary.Streams[i].Name))
    /\ \A i \in 1..(Len(summary.Streams) - 1) :
          summary.Streams[i].Messages >= summary.Streams[i + 1].Messages

TimeRange ==
    /\ summary.StartTime = minTimestamp(messages)
    /\ summary.EndTime = maxTimestamp(messages)
    /\ summary.Duration = summary.EndTime - summary.StartTime
    /\ summary.Duration >= 0

WithinLastSeq ==
    Fetching => \A i \in 1..Len(fetch.messages) :
                    fetch.messages[i].Sequence <= streamInfo.LastSeq

CursorAdvances ==
    [][(Fetching /\ fetch' # fetch) =>
          (fetch'.returned \/ fetch'.currentSeq > fetch.currentSeq)]_vars

FetchReturns == Fetching ~> fetch.returned

\* C27: every turn of the batch loop either leaves the loop or strictly
\* increases currentSeq, the call returns, and no accumulated message has a
\* sequence number above the recorded LastSeq even though messages are
\* published while the fetch runs.
C27_TerminatesWithinLastSeq ==
    /\ []WithinLastSeq
    /\ CursorAdvances
    /\ FetchReturns

(***************************************************************************)
(* The zoom state of the GUI session.                                      *)
(***************************************************************************)
\* Nothing is in flight and no timer is pending: without a new event from the
\* user the session stays as it is.
Quiet == inflight = {} /\ timers = {} /\ ~zoomRefetchTimeout

\* C28: the isUpdatingData guard never stays set forever: after any interleaving
\* of zoom events, zoomBack, downsample toggles and request completions
\* (superseded, aborted or with zero buckets), once no further request is issued
\* isUpdatingData returns to false.
C28_GuardReleased == []<>(pc = "gui" => ~isUpdatingData)

\* With nothing in flight and no timer pending no data update and no restore
\* from the history is under way: a zoom the user makes now comes from neither
\* and reaches the body of onZoomChange.
UserZoomHonoured == (pc = "gui" /\ ChartsExist /\ Quiet) => ~isUpdatingData

\* What onZoomChange does with a zoom it does not ignore: an unchanged window
\* changes nothing, a new one pushes the previous window when that was a real zoom.
ZoomPushes ==
    \A w \in Windows :
        (onZoomChange(w.min, w.max) /\ ~isUpdatingData) =>
            IF newZoomOf(w.min, w.max) = currentZoom
            THEN /\ zoomHistory' = zoomHistory
                 /\ currentZoom' = currentZoom
                 /\ zoomRefetchTimeout' = zoomRefetchTimeout
            ELSE /\ currentZoom' = newZoomOf(w.min, w.max)
                 /\ zoomHistory' = IF currentZoom = NoZoom
                                   THEN zoomHistory
                                   ELSE Append(zoomHistory, currentZoom)

\* zoomBack restores the window pushed last and pushes nothing; with an empty
\* history it restores the full range.
ZoomBackPops ==
    zoomBack =>
        IF zoomHistory = <<>>
        THEN currentZoom' = NoZoom /\ zoomHistory' = <<>>
        ELSE /\ currentZoom' = zoomHistory[Len(zoomHistory)]
             /\ Append(zoomHistory', currentZoom') = zoomHistory

\* The history changes by one push or one pop at a time and holds real windows only.
OnePushOrPop ==
    \/ zoomHistory' = zoomHistory
    \/ zoomHistory' = Append(zoomHistory, currentZoom) /\ currentZoom # NoZoom
    \/ Append(zoomHistory', currentZoom') = zoomHistory

C29_StackSteps == [][ZoomPushes /\ ZoomBackPops /\ OnePushOrPop]_vars

\* C29: the zoom history is a stack: a zoom of the user to a new window pushes
\* the previous window exactly when that was a real zoom and the change came
\* neither from the history nor from a data update; an unchanged window pushes
\* nothing and cancels no pending refetch; zoomBack pops the window pushed last
\* and pushes nothing, and restores the full range when the history is empty.
C29_ZoomStack ==
    /\ []UserZoomHonoured
    /\ C29_StackSteps

(***************************************************************************)
(* The number of buckets downsampleHistogram returns.                      *)
(***************************************************************************)
\* The loop of downsampleHistogram appends one bucket for i = 0, factor,
\* 2 * factor, ... below n.
newBucketCount(n, maxBuckets) == CeilDiv(n, factorOf(n, maxBuckets))

\* C30: for a histogram with N buckets and maxBuckets M with 1 <= M < N,
\* downsampleHistogram returns at least 1 and at most M buckets,
\* ceil(N / ceil(N / M)) of them.
C30_BucketCountBounded ==
    /\ (/\ pc = "downsample"
        /\ ~parent.Nil
        /\ dsMax >= 1
        /\ dsMax < Len(parent.Buckets)) =>
           /\ ~view.Nil
           /\ Len(view.Buckets) >= 1
           /\ Len(view.Buckets) <= dsMax
           /\ Len(view.Buckets) = newBucketCount(Len(parent.Buckets), dsMax)
    /\ \A n \in 1..MaxBuckets : \A m \in 1..(n - 1) :
           newBucketCount(n, m) >= 1 /\ newBucketCount(n, m) <= m

\* Three buckets averaged down to a maximum of two, and three down to one.
C30_Witness ==
    /\ pc = "downsample"
    /\ dsAvg
    /\ Len(parent.Buckets) = 3
    /\ dsMax \in {1, 2}
    /\ Len(view.Buckets) = dsMax
    /\ view.Buckets[1].Start = parent.Buckets[1].Start

====
